---- MODULE Spec2Model ----
(***************************************************************************)
(* Model of the natural-language query parsers of EM_SparkTest:            *)
(*   parsers/bulletproof_parser.py, parsers/date_parser.py,                *)
(*   parsers/time_parser.py, parsers/query_parser.py,                      *)
(*   parsers/smart_parser.py, utils/text_utils.py.                         *)
(*                                                                         *)
(* A query text is a sequence of lexical tokens.  The text a token         *)
(* sequence stands for is obtained by writing "-", "/" and ":" glued to    *)
(* both neighbours, "," glued to its left neighbour and followed by one    *)
(* space, and every other token separated by one space.  Each regular      *)
(* expression of the source is translated to a match over token positions  *)
(* under that spelling, and its capture groups are numbered as Python's    *)
(* re module numbers them (a group inside MONTH_PATTERN counts).           *)
(***************************************************************************)
EXTENDS Integers, Sequences, FiniteSets, TLC

\* ------------------------------------------------------------------------
\* Tokens
\* ------------------------------------------------------------------------
\* k: "num", "mon" or the word / punctuation mark itself
\* v: value of a number, month number of a month name
\* w: digit count of a number; spelling of a month name
\*    (0 = three-letter abbreviation, 1 = full name, 2 = "sept")
\* c: 1 when the token is typed with upper-case letters
W(word) == [k |-> word, v |-> 0, w |-> 0, c |-> 0]
N(v, w) == [k |-> "num", v |-> v, w |-> w, c |-> 0]
M(v, f) == [k |-> "mon", v |-> v, w |-> f, c |-> 0]

\* Python None for integers and dates, for Optional[List[int]] and for an
\* unmatched regex group
None == -1
NoneL == <<-1>>
NoneTok == [k |-> "None", v |-> 0, w |-> 0, c |-> 0]

Range(a, b) == [i \in 1..(b - a + 1) |-> a + i - 1]
Min(a, b) == IF a < b THEN a ELSE b
Max(a, b) == IF a > b THEN a ELSE b

IsNum(t) == t.k = "num"
IsMon(t) == t.k = "mon"
\* the token is spelled in lower case (case-sensitive patterns need it)
IsLower(t) == t.c = 0
At(text, i) == IF i >= 1 /\ i <= Len(text) THEN text[i] ELSE NoneTok
Is(text, i, word) == At(text, i).k = word
Has(text, word) == \E i \in 1..Len(text) : text[i].k = word
\* leftmost position satisfying P, 0 when there is none (re.search)
First(S) == IF S = {} THEN 0 ELSE CHOOSE i \in S : \A j \in S : i <= j

\* the text left in the case it was typed in
lower_Unchanged(text) == text
\* str.lower()
lower(text) == [i \in 1..Len(text) |-> [text[i] EXCEPT !.c = 0]]

\* ------------------------------------------------------------------------
\* datetime.date, calendar.monthrange
\* ------------------------------------------------------------------------
IsLeap(y) == (y % 4 = 0 /\ y % 100 # 0) \/ y % 400 = 0
monthrange(y, m) ==
    IF m \in {4, 6, 9, 11} THEN 30
    ELSE IF m = 2 THEN (IF IsLeap(y) THEN 29 ELSE 28)
    ELSE 31
\* date(y, m, d) raises ValueError unless this holds
ValidDate(y, m, d) ==
    /\ y >= 1 /\ y <= 9999
    /\ m >= 1 /\ m <= 12
    /\ d >= 1 /\ d <= monthrange(y, m)
\* a date is the integer yyyymmdd, so that <= on dates is <= on integers
date(y, m, d) == y * 10000 + m * 100 + d
YearOf(dt) == dt \div 10000
MonthOf(dt) == (dt \div 100) % 100
DayOf(dt) == dt % 100
\* dt - timedelta(days=1)
Yesterday(dt) ==
    IF DayOf(dt) > 1 THEN dt - 1
    ELSE IF MonthOf(dt) > 1
         THEN date(YearOf(dt), MonthOf(dt) - 1, monthrange(YearOf(dt), MonthOf(dt) - 1))
         ELSE date(YearOf(dt) - 1, 12, 31)
\* dt + timedelta(days=1): the date after midnight
Tomorrow(dt) ==
    IF DayOf(dt) < monthrange(YearOf(dt), MonthOf(dt)) THEN dt + 1
    ELSE IF MonthOf(dt) < 12 THEN date(YearOf(dt), MonthOf(dt) + 1, 1)
         ELSE date(YearOf(dt) + 1, 1, 1)

\* ------------------------------------------------------------------------
\* core/models.py
\* ------------------------------------------------------------------------
QuerySpec(market, start_date, end_date, granularity, hours, slots, stat) ==
    [market |-> market, start_date |-> start_date, end_date |-> end_date,
     granularity |-> granularity, hours |-> hours, slots |-> slots,
     stat |-> stat, area |-> "ALL", auto_added |-> FALSE]

\* truth value of an Optional[List[int]]: None and [] are both falsy
Truthy(l) == l # NoneL /\ l # <<>>
FullDay == Range(1, 24)

\* ------------------------------------------------------------------------
\* parsers/bulletproof_parser.py
\* ------------------------------------------------------------------------
MarketWords == {"dam", "gdam", "rtm"}
MarketName(word) ==
    IF word = "rtm" THEN "RTM" ELSE IF word = "gdam" THEN "GDAM" ELSE "DAM"
HourUnits == {"hr", "hrs", "hour", "hours"}
SlotUnits == {"slot", "slots", "block", "blocks"}

\* a case-sensitive word of the set S at position i
IsWordOf(text, i, S) == At(text, i).k \in S /\ IsLower(At(text, i))
\* (jan|feb|...|sep|sept|...|dec) followed by \s: an abbreviation, not a full name
IsAbbrev(text, i) ==
    IsMon(At(text, i)) /\ At(text, i).w \in {0, 2} /\ IsLower(At(text, i))
\* (jan|...|dec)[a-z]*: any spelling of a month
IsMonthWord(text, i) == IsMon(At(text, i)) /\ IsLower(At(text, i))
\* the digits \d{1,2} takes when nothing anchors its left end: the last two
Tail2(t) == IF t.w <= 2 THEN t.v ELSE t.v % 100

_extract_market(query) ==
    IF \E i \in 1..Len(query) : IsWordOf(query, i, {"rtm"}) THEN "RTM"
    ELSE IF \E i \in 1..Len(query) : IsWordOf(query, i, {"gdam"}) THEN "GDAM"
    ELSE "DAM"

\* (\d{1,2})\s*-\s*(\d{1,2})\s*(?:unit) at position i
RangeUnitAt(query, i, units) ==
    /\ IsNum(At(query, i))
    /\ Is(query, i + 1, "-")
    /\ IsNum(At(query, i + 2)) /\ At(query, i + 2).w <= 2
    /\ IsWordOf(query, i + 3, units)

_extract_time_ranges(query) ==
    LET Ranges(ih, is) ==
            IF ih # 0
            THEN [hours |-> Range(Tail2(query[ih]), query[ih + 2].v), slots |-> NoneL]
            ELSE IF is # 0
            THEN [hours |-> NoneL, slots |-> Range(Tail2(query[is]), query[is + 2].v)]
            ELSE [hours |-> NoneL, slots |-> NoneL]
    IN  Ranges(First({i \in 1..Len(query) : RangeUnitAt(query, i, HourUnits)}),
               First({i \in 1..Len(query) : RangeUnitAt(query, i, SlotUnits)}))

\* the QuerySpec(...) expression shared by _build_spec, _parse_components
\* and _parse_lenient
SpecWithTimes(market, start, end, tr) ==
    QuerySpec(market, start, end,
              IF Truthy(tr.hours) THEN "hour"
              ELSE IF Truthy(tr.slots) THEN "quarter" ELSE "hour",
              IF Truthy(tr.hours) THEN tr.hours ELSE FullDay,
              tr.slots,
              "twap")

_build_spec(market, start, end, query) ==
    SpecWithTimes(market, start, end, _extract_time_ranges(query))

\* t1, t2: the two values date.today() returns
_default_spec(t1, t2) ==
    QuerySpec("DAM", t1, t2, "hour", FullDay, NoneL, "twap")

\* (dam|gdam|rtm)\s+(?:rate|price)?\s*(?:for)?\s*(\d{1,2})\s+(abbr)\s+(\d{4})
\* matched with the market at i; the result is the position of the day, or 0
DirectDayPos(query, i) ==
    LET a == IF IsWordOf(query, i + 1, {"rate", "price"}) THEN i + 2 ELSE i + 1
        b == IF IsWordOf(query, a, {"for"}) THEN a + 1 ELSE a
    IN  IF /\ IsWordOf(query, i, MarketWords)
           /\ IsNum(At(query, b)) /\ At(query, b).w <= 2
           /\ IsAbbrev(query, b + 1)
           /\ IsNum(At(query, b + 2)) /\ At(query, b + 2).w = 4
        THEN b ELSE 0

\* \b(dam|gdam|rtm)\b.*\b<word>\b
MarketThen(query, word) ==
    \E i, j \in 1..Len(query) :
        i < j /\ IsWordOf(query, i, MarketWords) /\ IsWordOf(query, j, {word})

\* None is the empty sequence of specs (both are falsy in parse)
_parse_direct(query, today) ==
    LET Direct(i, b) ==
            IF i # 0 /\ ValidDate(query[b + 2].v, query[b + 1].v, query[b].v)
            THEN LET d == date(query[b + 2].v, query[b + 1].v, query[b].v)
                 IN  <<_build_spec(MarketName(query[i].k), d, d, query)>>
            ELSE IF MarketThen(query, "today")
            THEN <<_build_spec(_extract_market(query), today, today, query)>>
            ELSE IF MarketThen(query, "yesterday")
            THEN <<_build_spec(_extract_market(query), Yesterday(today), Yesterday(today), query)>>
            ELSE <<>>
        MatchAt(i) == Direct(i, DirectDayPos(query, i))
    IN  MatchAt(First({p \in 1..Len(query) : DirectDayPos(query, p) # 0}))

\* (\d{1,2})\s+(abbr)[a-z]*\s+(\d{4})
DayMonYearAt(query, i) ==
    /\ IsNum(At(query, i))
    /\ IsMonthWord(query, i + 1)
    /\ IsNum(At(query, i + 2)) /\ At(query, i + 2).w = 4
\* \b(abbr)[a-z]*\s+(\d{4})\b
MonYearAt(query, i) ==
    /\ IsMonthWord(query, i)
    /\ IsNum(At(query, i + 1)) /\ At(query, i + 1).w = 4

\* the "DD Mon YYYY" / "Mon YYYY" steps shared by _extract_date and
\* _parse_lenient; the result is <<start, end>>, <<None, None>> when
\* neither pattern gives a date
NamedDate(query) ==
    LET Dates(i, j) ==
            IF i # 0 /\ ValidDate(query[i + 2].v, query[i + 1].v, Tail2(query[i]))
            THEN LET d == date(query[i + 2].v, query[i + 1].v, Tail2(query[i]))
                 IN  <<d, d, "day">>
            ELSE IF j # 0 /\ ValidDate(query[j + 1].v, query[j].v, 1)
            THEN <<date(query[j + 1].v, query[j].v, 1),
                   date(query[j + 1].v, query[j].v, monthrange(query[j + 1].v, query[j].v)),
                   "month">>
            ELSE <<None, None, "none">>
    IN  Dates(First({p \in 1..Len(query) : DayMonYearAt(query, p)}),
              First({p \in 1..Len(query) : MonYearAt(query, p)}))

_extract_date(query, today) ==
    LET Named(nd) == <<nd[1], nd[2]>>
    IN  IF Has(query, "today") THEN <<today, today>>
        ELSE IF Has(query, "yesterday") THEN <<Yesterday(today), Yesterday(today)>>
        ELSE Named(NamedDate(query))

_parse_components(query, today) ==
    LET Component(market, dr) ==
            IF dr[1] = None THEN <<>>
            ELSE <<SpecWithTimes(market, dr[1], dr[2], _extract_time_ranges(query))>>
    IN  Component(_extract_market(query), _extract_date(query, today))

_parse_lenient(query) ==
    LET Lenient(market, nd) ==
            IF nd[3] = "day"
            THEN <<SpecWithTimes(market, nd[1], nd[2], _extract_time_ranges(query))>>
            ELSE IF nd[3] = "month"
            THEN <<_build_spec(market, nd[1], nd[2], query)>>
            ELSE <<>>
    IN  Lenient(_extract_market(query), NamedDate(query))

\* the parse without its last resort: the lenient result is returned as is
BulletproofParse_NoDefault(raw, t1, t2) ==
    LET FirstOf(direct, components, lenient) ==
            IF direct # <<>> THEN [specs |-> direct, strategy |-> "direct"]
            ELSE IF components # <<>> THEN [specs |-> components, strategy |-> "components"]
            ELSE [specs |-> lenient, strategy |-> "lenient"]
        Strategies(query) ==
            FirstOf(_parse_direct(query, t1), _parse_components(query, t1),
                    _parse_lenient(query))
    IN  Strategies(lower(raw))
\* BulletproofParser.parse; t1, t2 are what date.today() returns to the
\* strategies and to the second read of _default_spec
BulletproofParse(raw, t1, t2) ==
    LET FirstOf(direct, components, lenient) ==
            IF direct # <<>> THEN [specs |-> direct, strategy |-> "direct"]
            ELSE IF components # <<>> THEN [specs |-> components, strategy |-> "components"]
            ELSE IF lenient # <<>> THEN [specs |-> lenient, strategy |-> "lenient"]
            ELSE [specs |-> <<_default_spec(t1, t2)>>, strategy |-> "default"]
        Strategies(query) ==
            FirstOf(_parse_direct(query, t1), _parse_components(query, t1),
                    _parse_lenient(query))
    IN  Strategies(lower(raw))

\* ------------------------------------------------------------------------
\* parsers/time_parser.py
\* ------------------------------------------------------------------------
QuarterWords == {"block", "blocks", "slot", "slots", "quarter", "quarters"}
HourWords == {"hour", "hours", "hr", "hrs"}
ToWords == {"to", "-"}

\* re.finditer / re.sub scan: len[p] is the number of tokens the pattern
\* matches when started at p (0 = no match); the result lists the starts of
\* the leftmost non-overlapping matches
RECURSIVE ScanFrom(_, _)
ScanFrom(len, p) ==
    LET FromMatch(q) ==
            IF q = 0 THEN <<>> ELSE <<q>> \o ScanFrom(len, q + len[q])
    IN  FromMatch(First({q \in p..Len(len) : len[q] > 0}))

\* re.sub(pattern, ' ', text): the tokens of every match are dropped
DropFrom(text, len, p) ==
    LET Kept(starts) ==
            LET Covered(q) ==
                    \E s \in 1..Len(starts) :
                        starts[s] <= q /\ q < starts[s] + len[starts[s]]
                IsKept(q) == q >= p /\ ~Covered(q)
                TokensAt(keep) == [j \in 1..Len(keep) |-> text[keep[j]]]
            IN  TokensAt(SelectSeq([q \in 1..Len(text) |-> q], IsKept))
    IN  Kept(ScanFrom(len, p))

\* sorted(set(...)) of the union of the ranges s..e of a list of pairs
SortedSeq(S) ==
    IF S = {} THEN <<>>
    ELSE LET Member(x) == x \in S
         IN  SelectSeq(Range(CHOOSE x \in S : \A y \in S : x <= y,
                             CHOOSE x \in S : \A y \in S : y <= x),
                       Member)
UnionOfRanges(groups) ==
    UNION {(groups[i][1])..(groups[i][2]) : i \in 1..Len(groups)}

\* \b\d{1,2}[/-]\d{1,2}[/-]\d{2,4}\b
NumericDateLen(text, i) ==
    IF /\ IsNum(At(text, i)) /\ At(text, i).w <= 2
       /\ At(text, i + 1).k \in {"/", "-"}
       /\ IsNum(At(text, i + 2)) /\ At(text, i + 2).w <= 2
       /\ At(text, i + 3).k \in {"/", "-"}
       /\ IsNum(At(text, i + 4)) /\ At(text, i + 4).w \in 2..4
    THEN 5 ELSE 0
StripNumericDates(text) ==
    DropFrom(text, [p \in 1..Len(text) |-> NumericDateLen(text, p)], 1)

\* \b\d{1,2}\s+(jan|feb|...|dec)\s+\d{4}\b  (no "sept", no full names)
NamedDateLen(text, i) ==
    IF /\ IsNum(At(text, i)) /\ At(text, i).w <= 2
       /\ IsMon(At(text, i + 1)) /\ At(text, i + 1).w = 0
       /\ IsNum(At(text, i + 2)) /\ At(text, i + 2).w = 4
    THEN 3 ELSE 0
StripNamedDates(text) ==
    DropFrom(text, [p \in 1..Len(text) |-> NamedDateLen(text, p)], 1)

_to_24hour(hour, ampm) ==
    LET h == IF ampm = "" THEN hour
             ELSE (hour % 12) + (IF ampm = "pm" THEN 12 ELSE 0)
    IN  Max(0, Min(23, h))

\* One side of a clock range, (\d{1,2})(?::(\d{2}))?\s*(am|pm)? started at
\* i: the hour, the minutes (0 when the group is absent), the am/pm word
\* ("" when absent) and the position after it; h = None when no match
ClockSide(text, i) ==
    LET Side(hasMin, p) ==
            IF IsNum(At(text, i)) /\ At(text, i).w <= 2
            THEN [h |-> text[i].v,
                  m |-> IF hasMin THEN text[i + 2].v ELSE 0,
                  a |-> IF At(text, p).k \in {"am", "pm"} THEN text[p].k ELSE "",
                  next |-> IF At(text, p).k \in {"am", "pm"} THEN p + 1 ELSE p]
            ELSE [h |-> None, m |-> 0, a |-> "", next |-> i]
        Minutes(hasMin) == Side(hasMin, IF hasMin THEN i + 3 ELSE i + 1)
    IN  Minutes(Is(text, i + 1, ":") /\ IsNum(At(text, i + 2)) /\ At(text, i + 2).w = 2)

\* \b(\d{1,2})(?::(\d{2}))?\s*(am|pm)?\s*(?:to|-)\s*(\d{1,2})(?::(\d{2}))?\s*(am|pm)?\b
ClockLen(text, i) ==
    LET Both(s1, s2) ==
            IF s1.h # None /\ At(text, s1.next).k \in ToWords /\ s2.h # None
            THEN s2.next - i ELSE 0
        From(s1) == Both(s1, ClockSide(text, s1.next + 1))
    IN  From(ClockSide(text, i))

\* hour_groups and slot_groups of _parse_clock_times
RECURSIVE ClockGroups(_, _)
ClockGroups(text, starts) ==
    IF starts = <<>> THEN [hours |-> <<>>, slots |-> <<>>]
    ELSE LET Blocks(m1, m2, H1, H2, rest) ==
                 LET start_block == Min(24, H1 + 1 + (IF m1 > 0 THEN 1 ELSE 0))
                     end_block == IF m2 = 0 THEN Max(1, H2) ELSE Min(24, H2 + 1)
                     sslot == Max(1, Min(96, ((H1 * 60 + m1 + 14) \div 15) + 1))
                     eslot == Max(1, Min(96, (H2 * 60 + m2) \div 15))
                 IN  [hours |-> (IF end_block >= start_block
                                 THEN <<<<start_block, end_block>>>> ELSE <<>>)
                                \o rest.hours,
                      slots |-> (IF eslot >= sslot
                                 THEN <<<<sslot, eslot>>>> ELSE <<>>)
                                \o rest.slots]
             Both(s1, s2) ==
                 Blocks(s1.m, s2.m, _to_24hour(s1.h, s1.a), _to_24hour(s2.h, s2.a),
                        ClockGroups(text, Tail(starts)))
             From(s1) == Both(s1, ClockSide(text, s1.next + 1))
         IN  From(ClockSide(text, Head(starts)))

_parse_clock_times(text) ==
    ClockGroups(text, ScanFrom([p \in 1..Len(text) |-> ClockLen(text, p)], 1))

\* \b(\d{1,2})\s*(?:to|-)\s*(\d{1,2}) followed by \s*(?:units)\b when units
\* is not empty, by \b alone when it is
NumRangeLen(text, i, units) ==
    IF /\ IsNum(At(text, i)) /\ At(text, i).w <= 2
       /\ At(text, i + 1).k \in ToWords
       /\ IsNum(At(text, i + 2)) /\ At(text, i + 2).w <= 2
       /\ (units = {} \/ At(text, i + 3).k \in units)
    THEN (IF units = {} THEN 3 ELSE 4) ELSE 0
NumRanges(text, units) ==
    ScanFrom([p \in 1..Len(text) |-> NumRangeLen(text, p, units)], 1)

RECURSIVE HourRangeGroups(_, _)
HourRangeGroups(clean, starts) ==
    IF starts = <<>> THEN <<>>
    ELSE LET Block(h1, h2) ==
                 LET start_block == Min(24, h1 + 1)
                     end_block == IF h2 = 24 THEN 24 ELSE Max(1, Min(24, h2))
                 IN  IF end_block >= start_block
                     THEN <<<<start_block, end_block>>>> ELSE <<>>
         IN  Block(Max(0, Min(23, clean[Head(starts)].v)),
                   Max(0, Min(24, clean[Head(starts) + 2].v)))
             \o HourRangeGroups(clean, Tail(starts))

_parse_hour_ranges(text) ==
    LET Ranges(clean) == HourRangeGroups(clean, NumRanges(clean, HourWords))
    IN  Ranges(StripNumericDates(text))

RECURSIVE ExplicitSlotGroups(_, _)
ExplicitSlotGroups(text, starts) ==
    IF starts = <<>> THEN <<>>
    ELSE LET Sorted(a, b) == <<<<Max(1, Min(a, b)), Min(96, Max(a, b))>>>>
         IN  Sorted(text[Head(starts)].v, text[Head(starts) + 2].v)
             \o ExplicitSlotGroups(text, Tail(starts))

_parse_explicit_slots(text) ==
    ExplicitSlotGroups(text, NumRanges(text, QuarterWords))

RECURSIVE PlainGroups(_, _)
PlainGroups(clean, starts) ==
    IF starts = <<>> THEN <<>>
    ELSE LET Sorted(lo, hi) ==
                 IF 1 <= lo /\ lo <= 96 /\ 1 <= hi /\ hi <= 96
                 THEN <<<<lo, hi>>>> ELSE <<>>
             Pair(a, b) == Sorted(Min(a, b), Max(a, b))
         IN  Pair(clean[Head(starts)].v, clean[Head(starts) + 2].v)
             \o PlainGroups(clean, Tail(starts))

_parse_plain_numeric_ranges(text) ==
    LET Ranges(clean) == PlainGroups(clean, NumRanges(clean, {}))
    IN  Ranges(StripNumericDates(StripNamedDates(text)))

parse_time_groups(text) ==
    LET Groups(lo, prefer_quarter, prefer_hour) ==
            LET IsHourRange(g) == g[2] <= 24 /\ ~prefer_quarter
                IsSlotRange(g) == ~IsHourRange(g)
                IsQuarter(r) == r.granularity = "quarter"
                IsHour(r) == r.granularity = "hour"
                Preferred(result) ==
                    IF prefer_quarter /\ Len(result) > 1 THEN SelectSeq(result, IsQuarter)
                    ELSE IF prefer_hour /\ Len(result) > 1 THEN SelectSeq(result, IsHour)
                    ELSE result
                Result(hours_groups, slot_groups) ==
                    Preferred(
                        (IF hours_groups # <<>>
                         THEN <<[granularity |-> "hour",
                                 hours |-> SortedSeq(UnionOfRanges(hours_groups)),
                                 slots |-> NoneL]>>
                         ELSE <<>>)
                        \o (IF slot_groups # <<>>
                            THEN <<[granularity |-> "quarter",
                                    hours |-> NoneL,
                                    slots |-> SortedSeq(UnionOfRanges(slot_groups))]>>
                            ELSE <<>>))
                Collect(time_ranges, numeric_ranges) ==
                    Result(time_ranges.hours \o _parse_hour_ranges(lo)
                               \o SelectSeq(numeric_ranges, IsHourRange),
                           time_ranges.slots \o _parse_explicit_slots(lo)
                               \o SelectSeq(numeric_ranges, IsSlotRange))
            IN  Collect(_parse_clock_times(lo), _parse_plain_numeric_ranges(lo))
        Hints(lo) ==
            Groups(lo, \E i \in 1..Len(lo) : lo[i].k \in QuarterWords,
                       \E i \in 1..Len(lo) : lo[i].k \in HourWords)
    IN  Hints(lower(text))

\* ------------------------------------------------------------------------
\* parsers/date_parser.py
\* ------------------------------------------------------------------------
\* DATE_MIN = date(2010, 1, 1)
DATE_MIN == date(2010, 1, 1)

\* int(g) succeeds on a digit string only
CanInt(g) == IsNum(g)
\* g in MONTHS: the keys are the month names
InMONTHS(g) == IsMon(g)
MONTHS(g) == g.v

_normalize_year(year_input) ==
    IF year_input = NoneTok THEN None
    ELSE IF ~CanInt(year_input) THEN None
    ELSE IF year_input.v < 100 THEN year_input.v + 2000
    ELSE year_input.v

\* what a resolver hands back: a pair of dates, (None, None), or an exception
Resolved(start, end) == [exc |-> "", start |-> start, end |-> end]
NoMatch == [exc |-> "", start |-> None, end |-> None]
Raise(e) == [exc |-> e, start |-> None, end |-> None]
\* date(year, month, day) with year possibly None
DateError(year, month, day) ==
    IF year = None THEN "TypeError"
    ELSE IF ~ValidDate(year, month, day) THEN "ValueError"
    ELSE ""

\* (\d{2,4}) as a whole token
IsYear24(t) == IsNum(t) /\ t.w \in 2..4
IsDay(t) == IsNum(t) /\ t.w <= 2
\* the optional group (?:\s+(\d{2,4}))?\b after a month name at position i
OptYear(text, i) == IF IsYear24(At(text, i + 1)) THEN text[i + 1] ELSE NoneTok

\* (?:from\s+)?(\d{1,2})\s+(MONTH_PATTERN)\s+(?:to|until|till|-)\s+
\* (\d{1,2})\s+(MONTH_PATTERN)\s+(\d{2,4})
\* A "-" is spelled without spaces around it, so only the words match.
DayMonToDayMonYearAt(text, i) ==
    /\ IsNum(At(text, i))
    /\ IsMon(At(text, i + 1))
    /\ At(text, i + 2).k \in {"to", "until", "till"}
    /\ IsDay(At(text, i + 3))
    /\ IsMon(At(text, i + 4))
    /\ IsNum(At(text, i + 5)) /\ At(text, i + 5).w >= 2
\* m.group(1..7): MONTH_PATTERN is itself a group, so each month is captured twice
DayMonToDayMonYearGroups(text, i) ==
    <<[text[i] EXCEPT !.v = Tail2(text[i])], text[i + 1], text[i + 1],
      text[i + 3], text[i + 4], text[i + 4], text[i + 5]>>

_parse_day_month_to_day_month_year(text, today) ==
    LET Swapped(start, end) ==
            IF start > end THEN Resolved(end, start) ELSE Resolved(start, end)
        Dates(g, year) ==
            IF ~CanInt(g[1]) THEN Raise("ValueError")
            ELSE IF ~InMONTHS(g[2]) THEN Raise("KeyError")
            ELSE IF ~CanInt(g[3]) THEN Raise("ValueError")
            ELSE IF ~InMONTHS(g[4]) THEN Raise("KeyError")
            ELSE IF DateError(year, MONTHS(g[2]), g[1].v) # ""
            THEN Raise(DateError(year, MONTHS(g[2]), g[1].v))
            ELSE IF DateError(year, MONTHS(g[4]), g[3].v) # ""
            THEN Raise(DateError(year, MONTHS(g[4]), g[3].v))
            ELSE Swapped(date(year, MONTHS(g[2]), g[1].v),
                         date(year, MONTHS(g[4]), g[3].v))
        Groups(g) == Dates(g, _normalize_year(g[5]))
        Match(i) == IF i = 0 THEN NoMatch ELSE Groups(DayMonToDayMonYearGroups(text, i))
    IN  Match(First({p \in 1..Len(text) : DayMonToDayMonYearAt(text, p)}))

\* \b(?:from\s*)?(\d{1,2})\s+(MONTH_PATTERN)\s+(\d{2,4})\s*(?:to|-)\s*
\* (\d{1,2})\s+(MONTH_PATTERN)\s+(\d{2,4})\b
DayMonYearRangeAt(text, i) ==
    /\ IsDay(At(text, i))
    /\ IsMon(At(text, i + 1))
    /\ IsYear24(At(text, i + 2))
    /\ At(text, i + 3).k \in ToWords
    /\ IsDay(At(text, i + 4))
    /\ IsMon(At(text, i + 5))
    /\ IsYear24(At(text, i + 6))
\* m.group(1..8)
DayMonYearRangeGroups(text, i) ==
    <<text[i], text[i + 1], text[i + 1], text[i + 2],
      text[i + 4], text[i + 5], text[i + 5], text[i + 6]>>

_parse_day_month_year_range(text, today) ==
    LET Dates(g, year1, year2) ==
            IF ~CanInt(g[1]) THEN Raise("ValueError")
            ELSE IF ~InMONTHS(g[2]) THEN Raise("KeyError")
            ELSE IF ~CanInt(g[4]) THEN Raise("ValueError")
            ELSE IF ~InMONTHS(g[5]) THEN Raise("KeyError")
            ELSE IF DateError(year1, MONTHS(g[2]), g[1].v) # ""
            THEN Raise(DateError(year1, MONTHS(g[2]), g[1].v))
            ELSE IF DateError(year2, MONTHS(g[5]), g[4].v) # ""
            THEN Raise(DateError(year2, MONTHS(g[5]), g[4].v))
            ELSE Resolved(date(year1, MONTHS(g[2]), g[1].v),
                          date(year2, MONTHS(g[5]), g[4].v))
        Groups(g) == Dates(g, _normalize_year(g[3]), _normalize_year(g[6]))
        Match(i) == IF i = 0 THEN NoMatch ELSE Groups(DayMonYearRangeGroups(text, i))
    IN  Match(First({p \in 1..Len(text) : DayMonYearRangeAt(text, p)}))

\* \b(\d{1,2})\s*(?:to|-)\s*(\d{1,2})\s+(MONTH_PATTERN)(?:\s+(\d{2,4}))?\b
DayRangeSameMonthAt(text, i) ==
    /\ IsDay(At(text, i))
    /\ At(text, i + 1).k \in ToWords
    /\ IsDay(At(text, i + 2))
    /\ IsMon(At(text, i + 3))
\* m.group(1..5)
DayRangeSameMonthGroups(text, i) ==
    <<text[i], text[i + 2], text[i + 3], text[i + 3], OptYear(text, i + 3)>>

_parse_day_range_same_month(text, today) ==
    LET Dates(g, year) ==
            IF ~CanInt(g[1]) \/ ~CanInt(g[2]) THEN Raise("ValueError")
            ELSE IF ~InMONTHS(g[3]) THEN Raise("KeyError")
            ELSE IF DateError(year, MONTHS(g[3]), g[1].v) # ""
            THEN Raise(DateError(year, MONTHS(g[3]), g[1].v))
            ELSE IF DateError(year, MONTHS(g[3]), g[2].v) # ""
            THEN Raise(DateError(year, MONTHS(g[3]), g[2].v))
            ELSE Resolved(date(year, MONTHS(g[3]), g[1].v),
                          date(year, MONTHS(g[3]), g[2].v))
        Groups(g) ==
            Dates(g, IF g[4] # NoneTok THEN _normalize_year(g[4]) ELSE YearOf(today))
        Match(i) == IF i = 0 THEN NoMatch ELSE Groups(DayRangeSameMonthGroups(text, i))
    IN  Match(First({p \in 1..Len(text) : DayRangeSameMonthAt(text, p)}))

\* (?:from\s+)?(MONTH_PATTERN)\s+(\d{2,4})\s*(?:to|-)\s*(MONTH_PATTERN)\s+(\d{2,4})
MonthToMonthAt(text, i) ==
    /\ IsMon(At(text, i))
    /\ IsYear24(At(text, i + 1))
    /\ At(text, i + 2).k \in ToWords
    /\ IsMon(At(text, i + 3))
    /\ IsNum(At(text, i + 4)) /\ At(text, i + 4).w >= 2
\* m.group(1..6)
MonthToMonthGroups(text, i) ==
    <<text[i], text[i], text[i + 1], text[i + 3], text[i + 3], text[i + 4]>>

_parse_month_to_month_range(text, today) ==
    LET Dates(g, year1, year2) ==
            IF ~InMONTHS(g[1]) THEN Raise("KeyError")
            ELSE IF ~InMONTHS(g[3]) THEN Raise("KeyError")
            ELSE IF DateError(year1, MONTHS(g[1]), 1) # ""
            THEN Raise(DateError(year1, MONTHS(g[1]), 1))
            ELSE IF DateError(year2, MONTHS(g[3]), 1) # ""
            THEN Raise(DateError(year2, MONTHS(g[3]), 1))
            ELSE Resolved(date(year1, MONTHS(g[1]), 1),
                          date(year2, MONTHS(g[3]), monthrange(year2, MONTHS(g[3]))))
        Groups(g) == Dates(g, _normalize_year(g[2]), _normalize_year(g[4]))
        Match(i) == IF i = 0 THEN NoMatch ELSE Groups(MonthToMonthGroups(text, i))
    IN  Match(First({p \in 1..Len(text) : MonthToMonthAt(text, p)}))

\* \b(\d{1,2})[/-](\d{1,2})[/-](\d{2,4})\s*(?:to|-)\s*(\d{1,2})[/-](\d{1,2})[/-](\d{2,4})\b
NumericRangeAt(text, i) ==
    /\ NumericDateLen(text, i) > 0
    /\ At(text, i + 5).k \in ToWords
    /\ NumericDateLen(text, i + 6) > 0

_parse_numeric_range(text, today) ==
    LET Swapped(start, end) ==
            IF start > end THEN Resolved(end, start) ELSE Resolved(start, end)
        Dates(d1, m1, y1, d2, m2, y2) ==
            IF DateError(y1, m1, d1) # "" THEN Raise(DateError(y1, m1, d1))
            ELSE IF DateError(y2, m2, d2) # "" THEN Raise(DateError(y2, m2, d2))
            ELSE Swapped(date(y1, m1, d1), date(y2, m2, d2))
        Match(i) ==
            IF i = 0 THEN NoMatch
            ELSE Dates(text[i].v, text[i + 2].v, _normalize_year(text[i + 4]),
                       text[i + 6].v, text[i + 8].v, _normalize_year(text[i + 10]))
    IN  Match(First({p \in 1..Len(text) : NumericRangeAt(text, p)}))

\* \b(\d{1,2})[/-](\d{1,2})[/-](\d{2,4})\b
_parse_single_numeric_date(text, today) ==
    LET Date(d0, m0, y0) ==
            IF DateError(y0, m0, d0) # "" THEN Raise(DateError(y0, m0, d0))
            ELSE IF date(y0, m0, d0) >= DATE_MIN
            THEN Resolved(date(y0, m0, d0), date(y0, m0, d0))
            ELSE NoMatch
        Match(i) ==
            IF i = 0 THEN NoMatch
            ELSE Date(text[i].v, text[i + 2].v, _normalize_year(text[i + 4]))
    IN  Match(First({p \in 1..Len(text) : NumericDateLen(text, p) > 0}))

\* \b(\d{1,2})\s+(MONTH_PATTERN)(?:\s+(\d{2,4}))?\b
SingleDayMonthAt(text, i) == IsDay(At(text, i)) /\ IsMon(At(text, i + 1))
\* m.group(1..4)
SingleDayMonthGroups(text, i) ==
    <<text[i], text[i + 1], text[i + 1], OptYear(text, i + 1)>>

_parse_single_day_month(text, today) ==
    LET Dates(g, year) ==
            IF ~CanInt(g[1]) THEN Raise("ValueError")
            ELSE IF ~InMONTHS(g[2]) THEN Raise("KeyError")
            \* try: date(year, mon, day)  except ValueError: return None, None
            ELSE IF DateError(year, MONTHS(g[2]), g[1].v) = "ValueError" THEN NoMatch
            ELSE IF DateError(year, MONTHS(g[2]), g[1].v) # ""
            THEN Raise(DateError(year, MONTHS(g[2]), g[1].v))
            ELSE Resolved(date(year, MONTHS(g[2]), g[1].v),
                          date(year, MONTHS(g[2]), g[1].v))
        Groups(g) ==
            Dates(g, IF g[3] # NoneTok THEN _normalize_year(g[3]) ELSE YearOf(today))
        Match(i) == IF i = 0 THEN NoMatch ELSE Groups(SingleDayMonthGroups(text, i))
    IN  Match(First({p \in 1..Len(text) : SingleDayMonthAt(text, p)}))

\* (?<!\d\s)(MONTH_PATTERN)\s+(\d{2,4})\b : no number and space before the month
MonthYearAt(text, i) ==
    /\ IsMon(At(text, i))
    /\ IsYear24(At(text, i + 1))
    /\ ~IsNum(At(text, i - 1))
\* m.group(1..3)
MonthYearGroups(text, i) == <<text[i], text[i], text[i + 1]>>

_parse_month_year(text, today) ==
    LET Dates(g, year) ==
            IF ~InMONTHS(g[1]) THEN Raise("KeyError")
            ELSE IF DateError(year, MONTHS(g[1]), 1) # ""
            THEN Raise(DateError(year, MONTHS(g[1]), 1))
            ELSE Resolved(date(year, MONTHS(g[1]), 1),
                          date(year, MONTHS(g[1]), monthrange(year, MONTHS(g[1]))))
        Groups(g) == Dates(g, _normalize_year(g[2]))
        Match(i) == IF i = 0 THEN NoMatch ELSE Groups(MonthYearGroups(text, i))
    IN  Match(First({p \in 1..Len(text) : MonthYearAt(text, p)}))

\* \b(?:in\s+|full\s+year\s+|year\s+)(20\d{2})\b
YearOnlyAt(text, i) ==
    /\ At(text, i).k \in {"in", "year"}
    /\ IsNum(At(text, i + 1)) /\ At(text, i + 1).w = 4
    /\ At(text, i + 1).v \div 100 = 20

_parse_year_only(text, today) ==
    LET Match(i) ==
            IF i = 0 THEN NoMatch
            ELSE Resolved(date(text[i + 1].v, 1, 1), date(text[i + 1].v, 12, 31))
    IN  Match(First({p \in 1..Len(text) : YearOnlyAt(text, p)}))

\* " word " in lower: the word stands between two spaces
Glue == {"-", "--", "/", ":"}
SpacedWord(text, i, word) ==
    /\ Is(text, i, word)
    /\ At(text, i - 1).k \notin Glue
    /\ At(text, i + 1).k \notin (Glue \cup {","})
HasSpaced(text, word) == \E i \in 1..Len(text) : SpacedWord(text, i, word)
\* " first second " in lower
HasSpacedPair(text, first, second) ==
    \E i \in 1..Len(text) :
        /\ Is(text, i, first) /\ At(text, i - 1).k \notin Glue
        /\ Is(text, i + 1, second) /\ At(text, i + 2).k \notin (Glue \cup {","})

\* the list `patterns`, in the order of the source
ResolverNames ==
    <<"day_month_to_day_month_year", "day_month_year_range",
      "day_range_same_month", "numeric_range", "single_numeric_date",
      "single_day_month", "month_to_month_range", "month_year", "year_only">>
Resolver(name, text, today) ==
    CASE name = "day_month_to_day_month_year" -> _parse_day_month_to_day_month_year(text, today)
      [] name = "day_month_year_range" -> _parse_day_month_year_range(text, today)
      [] name = "day_range_same_month" -> _parse_day_range_same_month(text, today)
      [] name = "numeric_range" -> _parse_numeric_range(text, today)
      [] name = "single_numeric_date" -> _parse_single_numeric_date(text, today)
      [] name = "single_day_month" -> _parse_single_day_month(text, today)
      [] name = "month_to_month_range" -> _parse_month_to_month_range(text, today)
      [] name = "month_year" -> _parse_month_year(text, today)
      [] name = "year_only" -> _parse_year_only(text, today)

\* for parser_func in patterns: try ... except Exception: continue
\* the first resolver, in the order of the list, that returns two dates
TryPatterns(text, today) ==
    LET Succeeded(r) == r.exc = "" /\ r.start # None /\ r.end # None
        FirstOf(results) ==
            LET Returned(k) ==
                    IF k = 0
                    THEN [start |-> None, end |-> None, by |-> "none",
                          tried |-> ResolverNames]
                    ELSE [start |-> results[k].start, end |-> results[k].end,
                          by |-> ResolverNames[k], tried |-> SubSeq(ResolverNames, 1, k)]
            IN  Returned(First({k \in 1..Len(ResolverNames) : Succeeded(results[k])}))
    IN  FirstOf([k \in 1..Len(ResolverNames) |->
                    Resolver(ResolverNames[k], text, today)])

LastMonthStart(today) ==
    IF MonthOf(today) = 1 THEN date(YearOf(today) - 1, 12, 1)
    ELSE date(YearOf(today), MonthOf(today) - 1, 1)
MonthEnd(first) == date(YearOf(first), MonthOf(first), monthrange(YearOf(first), MonthOf(first)))

parse_single_range(raw, today) ==
    LET InLower(text) ==
            IF HasSpaced(text, "yesterday")
            THEN [start |-> Yesterday(today), end |-> Yesterday(today), by |-> "yesterday",
                  tried |-> <<>>]
            ELSE IF HasSpaced(text, "today")
            THEN [start |-> today, end |-> today, by |-> "today", tried |-> <<>>]
            ELSE IF HasSpacedPair(text, "this", "month")
            THEN [start |-> date(YearOf(today), MonthOf(today), 1),
                  end |-> MonthEnd(today), by |-> "this month", tried |-> <<>>]
            ELSE IF HasSpacedPair(text, "last", "month")
            THEN [start |-> LastMonthStart(today),
                  end |-> MonthEnd(LastMonthStart(today)), by |-> "last month",
                  tried |-> <<>>]
            ELSE TryPatterns(text, today)
    IN  InLower(lower(raw))

\* ------------------------------------------------------------------------
\* core/date_parser.py: the DateParser of the core package. Its
\* MONTH_PATTERN is a non-capturing group, so a pattern that does not put
\* the month in parentheses of its own numbers the groups after it one lower
\* than the code reads them.
\* ------------------------------------------------------------------------
\* int(m.group(5)) for (\d{2,4}) with nothing after it: the first four digits
Head4(t) == IF t.w <= 4 THEN t.v ELSE t.v \div (10 ^ (t.w - 4))
\* year = int(...); if year < 100: year += 2000
core_year(v) == IF v < 100 THEN v + 2000 ELSE v

core_parse_day_month_to_day_month_year(text, today) ==
    LET Swapped(start, end) ==
            IF start > end THEN Resolved(end, start) ELSE Resolved(start, end)
        Dates(d1, mon1, d2, mon2, year) ==
            IF ~ValidDate(year, mon1, d1) \/ ~ValidDate(year, mon2, d2)
            THEN Raise("ValueError")
            ELSE Swapped(date(year, mon1, d1), date(year, mon2, d2))
        Match(i) ==
            IF i = 0 THEN NoMatch
            ELSE Dates(Tail2(text[i]), MONTHS(text[i + 1]), text[i + 3].v,
                       MONTHS(text[i + 4]), core_year(Head4(text[i + 5])))
    IN  Match(First({p \in 1..Len(text) : DayMonToDayMonYearAt(text, p)}))

\* mon1 = self.MONTHS[m.group(2)] where group 2 holds the digits of a year
core_parse_day_month_year_range(text, today) ==
    IF \E p \in 1..Len(text) : DayMonYearRangeAt(text, p)
    THEN Raise("KeyError") ELSE NoMatch

\* mon = self.MONTHS[m.group(3)] where group 3 is the optional year
core_parse_day_range_same_month(text, today) ==
    IF \E p \in 1..Len(text) : DayRangeSameMonthAt(text, p)
    THEN Raise("KeyError") ELSE NoMatch

\* mon1 = self.MONTHS[m.group(1)] where group 1 holds the digits of a year
core_parse_month_to_month_range(text, today) ==
    IF \E p \in 1..Len(text) : MonthToMonthAt(text, p)
    THEN Raise("KeyError") ELSE NoMatch

\* mon0 = self.MONTHS[m.group(2)] where group 2 is the optional year
core_parse_single_day_month(text, today) ==
    IF \E p \in 1..Len(text) : SingleDayMonthAt(text, p)
    THEN Raise("KeyError") ELSE NoMatch

\* \bMONTH_PATTERN\s+(\d{2,4})\b, mon = self.MONTHS[m.group(1)]
core_parse_month_year(text, today) ==
    IF \E p \in 1..Len(text) : IsMon(At(text, p)) /\ IsYear24(At(text, p + 1))
    THEN Raise("KeyError") ELSE NoMatch

\* \b(20\d{2})\b anywhere, and \b(in|for|year|full\s+year)\b anywhere
core_parse_year_only(text, today) ==
    LET Match(i) ==
            IF i = 0 \/ ~(\E p \in 1..Len(text) : text[p].k \in {"in", "for", "year"})
            THEN NoMatch
            ELSE Resolved(date(text[i].v, 1, 1), date(text[i].v, 12, 31))
    IN  Match(First({p \in 1..Len(text) :
                        IsNum(text[p]) /\ text[p].w = 4 /\ text[p].v \div 100 = 20}))

\* the list `patterns` of core/date_parser.py, in the order of the source
core_ResolverNames ==
    <<"day_month_to_day_month_year", "day_month_year_range",
      "month_to_month_range", "day_range_same_month", "numeric_range",
      "single_numeric_date", "single_day_month", "month_year", "year_only">>
\* the two numeric resolvers read their groups as parsers/date_parser.py does
core_Resolver(name, text, today) ==
    CASE name = "day_month_to_day_month_year" ->
             core_parse_day_month_to_day_month_year(text, today)
      [] name = "day_month_year_range" -> core_parse_day_month_year_range(text, today)
      [] name = "month_to_month_range" -> core_parse_month_to_month_range(text, today)
      [] name = "day_range_same_month" -> core_parse_day_range_same_month(text, today)
      [] name = "numeric_range" -> _parse_numeric_range(text, today)
      [] name = "single_numeric_date" -> _parse_single_numeric_date(text, today)
      [] name = "single_day_month" -> core_parse_single_day_month(text, today)
      [] name = "month_year" -> core_parse_month_year(text, today)
      [] name = "year_only" -> core_parse_year_only(text, today)

core_TryPatterns(text, today) ==
    LET Succeeded(r) == r.exc = "" /\ r.start # None /\ r.end # None
        FirstOf(results) ==
            LET Returned(k) ==
                    IF k = 0
                    THEN [start |-> None, end |-> None, by |-> "none",
                          tried |-> core_ResolverNames]
                    ELSE [start |-> results[k].start, end |-> results[k].end,
                          by |-> core_ResolverNames[k],
                          tried |-> SubSeq(core_ResolverNames, 1, k)]
            IN  Returned(First({k \in 1..Len(core_ResolverNames) : Succeeded(results[k])}))
    IN  FirstOf([k \in 1..Len(core_ResolverNames) |->
                    core_Resolver(core_ResolverNames[k], text, today)])

core_parse_single_range(raw, today) ==
    LET InLower(text) ==
            IF HasSpaced(text, "yesterday")
            THEN [start |-> Yesterday(today), end |-> Yesterday(today), by |-> "yesterday",
                  tried |-> <<>>]
            ELSE IF HasSpaced(text, "today")
            THEN [start |-> today, end |-> today, by |-> "today", tried |-> <<>>]
            ELSE IF HasSpacedPair(text, "this", "month")
            THEN [start |-> date(YearOf(today), MonthOf(today), 1),
                  end |-> MonthEnd(today), by |-> "this month", tried |-> <<>>]
            ELSE IF HasSpacedPair(text, "last", "month")
            THEN [start |-> LastMonthStart(today),
                  end |-> MonthEnd(LastMonthStart(today)), by |-> "last month",
                  tried |-> <<>>]
            ELSE core_TryPatterns(text, today)
    IN  InLower(lower(raw))

\* ---- DateParser.parse_periods ----
\* (?:\s*,\s*(?:and\s+)?(\d{4}))+ : the years of the comma list that starts at p
RECURSIVE CommaYears(_, _)
CommaYears(text, p) ==
    IF Is(text, p, ",") /\ IsNum(At(text, p + 1)) /\ At(text, p + 1).w = 4
    THEN <<text[p + 1].v>> \o CommaYears(text, p + 2)
    ELSE IF /\ Is(text, p, ",") /\ Is(text, p + 1, "and")
            /\ IsNum(At(text, p + 2)) /\ At(text, p + 2).w = 4
    THEN <<text[p + 2].v>> \o CommaYears(text, p + 3)
    ELSE <<>>

\* \b(MONTH_PATTERN)\s+(\d{4})\b
MonthYear4Len(text, i) ==
    IF IsMon(At(text, i)) /\ IsNum(At(text, i + 1)) /\ At(text, i + 1).w = 4
    THEN 2 ELSE 0
\* \b(MONTH_PATTERN)\s+(\d{4})\b(?:\s*,\s*(?:and\s+)?(\d{4}))+
MonthCommaYearsAt(text, i) ==
    MonthYear4Len(text, i) > 0 /\ CommaYears(text, i + 2) # <<>>

FullMonth(year, month_num) ==
    <<date(year, month_num, 1), date(year, month_num, monthrange(year, month_num))>>

\* Strategy 1 loop: for year_str in years
RECURSIVE MonthOfYears(_, _)
MonthOfYears(month_num, years) ==
    IF years = <<>> THEN <<>>
    ELSE (IF 2000 <= Head(years) /\ Head(years) <= 2100
          THEN <<FullMonth(Head(years), month_num)>> ELSE <<>>)
         \o MonthOfYears(month_num, Tail(years))

\* match.group(1..3) of Strategy 2
RepeatedGroups(text, i) == <<text[i], text[i], text[i + 1]>>

\* Strategy 2 loop: for match in match_iter
RECURSIVE RepeatedMonths(_, _, _)
RepeatedMonths(text, starts, seen) ==
    IF starts = <<>> THEN <<>>
    ELSE LET Month(month_name, year_str) ==
                 IF /\ InMONTHS(month_name)
                    /\ CanInt(year_str)
                    /\ 2000 <= year_str.v /\ year_str.v <= 2100
                    /\ <<year_str.v, MONTHS(month_name)>> \notin seen
                 THEN <<FullMonth(year_str.v, MONTHS(month_name))>>
                      \o RepeatedMonths(text, Tail(starts),
                                        seen \cup {<<year_str.v, MONTHS(month_name)>>})
                 ELSE RepeatedMonths(text, Tail(starts), seen)
             Groups(g) == Month(g[1], g[2])
         IN  Groups(RepeatedGroups(text, Head(starts)))

parse_periods(raw) ==
    LET Periods(results1, results2) ==
            IF Len(results1) > 1 THEN results1
            ELSE IF Len(results2) > 1 THEN results2
            ELSE <<>>
        \* Strategy 2 appends to the results Strategy 1 may have left
        Strategy2(text, results1, match_iter) ==
            Periods(results1,
                    IF Len(match_iter) > 1
                    THEN results1 \o RepeatedMonths(text, match_iter, {})
                    ELSE <<>>)
        Strategy1(text, i) ==
            Strategy2(text,
                      IF i = 0 THEN <<>>
                      ELSE MonthOfYears(MONTHS(text[i]),
                                        <<text[i + 1].v>> \o CommaYears(text, i + 2)),
                      ScanFrom([p \in 1..Len(text) |-> MonthYear4Len(text, p)], 1))
        InLower(text) ==
            Strategy1(text, First({p \in 1..Len(text) : MonthCommaYearsAt(text, p)}))
    IN  InLower(lower(raw))

\* ------------------------------------------------------------------------
\* utils/text_utils.py
\* ------------------------------------------------------------------------
\* s.replace("—", "-").replace("–", "-").replace("−", "-")
\* the token "--" stands for an em dash, en dash or minus sign
NormalizeDashes(s) ==
    [i \in 1..Len(s) |-> IF s[i].k = "--" THEN W("-") ELSE s[i]]

\* position of the first "and" after p that has a token after it, else 0
NextAnd(s, p) == First({j \in (p + 2)..(Len(s) - 1) : Is(s, j, "and")})
\* re.sub(r"\bbetween\s+(\S.*?)\s+and\s+(\S.*?)\b", r"\1 to \2", s)
RECURSIVE RewriteBetween(_, _)
RewriteBetween(s, p) ==
    LET Rewrite(q, j) ==
            IF q = 0 THEN SubSeq(s, p, Len(s))
            ELSE SubSeq(s, p, q - 1) \o SubSeq(s, q + 1, j - 1)
                 \o <<W("to"), s[j + 1]>> \o RewriteBetween(s, j + 2)
        FromMatch(q) == Rewrite(q, NextAnd(s, q))
    IN  FromMatch(First({q \in p..Len(s) : Is(s, q, "between") /\ NextAnd(s, q) # 0}))

\* re.sub(r"\b(upto|through|till|until)\b", "to", s)
RewriteTill(s) ==
    [i \in 1..Len(s) |->
        IF s[i].k \in {"upto", "through", "till", "until"} THEN W("to") ELSE s[i]]

\* f"{m.group(1)} 20{m.group(2)}": "20" followed by the text of a group;
\* with a month name the result is a word such as "20nov"
Prefix20(g) ==
    IF IsNum(g) THEN N(2000 + g.v, 4)
    ELSE [k |-> "20mon", v |-> g.v, w |-> g.w, c |-> g.c]
\* m.group(1..3) of \b(month_pattern)\s*[-']\s*(\d{2})\b
MonthDashYearGroups(s, i) == <<s[i], s[i], s[i + 2]>>
RECURSIVE RewriteMonthYear(_, _)
RewriteMonthYear(s, p) ==
    LET Replaced(g) == <<g[1], Prefix20(g[2])>>
        FromMatch(q) ==
            IF q = 0 THEN SubSeq(s, p, Len(s))
            ELSE SubSeq(s, p, q - 1) \o Replaced(MonthDashYearGroups(s, q))
                 \o RewriteMonthYear(s, q + 3)
    IN  FromMatch(First({q \in p..Len(s) :
                            /\ IsMon(s[q]) /\ Is(s, q + 1, "-")
                            /\ IsNum(At(s, q + 2)) /\ At(s, q + 2).w = 2}))

normalize_text(text) ==
    RewriteMonthYear(RewriteTill(RewriteBetween(NormalizeDashes(text), 1)), 1)

\* ------------------------------------------------------------------------
\* parsers/query_parser.py
\* ------------------------------------------------------------------------
\* Config.DEFAULT_STAT when the environment does not set it
DEFAULT_STAT == "twap"

\* \b(gdam|green\s*day[-\s]*ahead)\b
HasGdam(text) ==
    \/ Has(text, "gdam")
    \/ \E i \in 1..Len(text) :
          Is(text, i, "green") /\ Is(text, i + 1, "day") /\ Is(text, i + 2, "ahead")

QueryParser_parse_market(text) == IF HasGdam(text) THEN "GDAM" ELSE "DAM"

_parse_stat(text) ==
    IF \E i \in 1..Len(text) : text[i].k \in {"vwap", "weighted"} THEN "vwap"
    ELSE IF \E i \in 1..Len(text) :
               Is(text, i, "daily") /\ At(text, i + 1).k \in {"avg", "average"}
    THEN "daily_avg"
    ELSE IF \E i \in 1..Len(text) : text[i].k \in {"list", "table", "rows", "detailed"}
    THEN "list"
    ELSE IF \E i \in 1..Len(text) : text[i].k \in {"avg", "average", "mean", "twap"}
    THEN "twap"
    ELSE DEFAULT_STAT

FullDayGroup == [granularity |-> "hour", hours |-> FullDay, slots |-> NoneL]

\* for time_group in time_groups: specs.append(QuerySpec(...))
RECURSIVE SpecsOfPeriod(_, _, _, _)
SpecsOfPeriod(market, stat, period, time_groups) ==
    IF time_groups = <<>> THEN <<>>
    ELSE LET tg == Head(time_groups)
         IN  <<QuerySpec(market, period[1], period[2], tg.granularity,
                         tg.hours, tg.slots, stat)>>
             \o SpecsOfPeriod(market, stat, period, Tail(time_groups))

\* for start_date, end_date in periods: ...
RECURSIVE SpecsOfPeriods(_, _, _, _)
SpecsOfPeriods(market, stat, periods, time_groups) ==
    IF periods = <<>> THEN <<>>
    ELSE SpecsOfPeriod(market, stat, Head(periods), time_groups)
         \o SpecsOfPeriods(market, stat, Tail(periods), time_groups)

_build_specs(market, stat, periods, time_groups) ==
    SpecsOfPeriods(market, stat, periods,
                   IF time_groups = <<>> THEN <<FullDayGroup>> ELSE time_groups)

\* tuple(spec.hours or [])
ListOrEmpty(l) == IF Truthy(l) THEN l ELSE <<>>
\* a key that also tells specs apart by their metadata
DedupKey_WithArea(spec) ==
    <<spec.market, spec.start_date, spec.end_date, spec.granularity,
      ListOrEmpty(spec.hours), ListOrEmpty(spec.slots), spec.stat,
      spec.area, spec.auto_added>>
DedupKey(spec) ==
    <<spec.market, spec.start_date, spec.end_date, spec.granularity,
      ListOrEmpty(spec.hours), ListOrEmpty(spec.slots), spec.stat>>

RECURSIVE DedupFrom(_, _)
DedupFrom(specs, seen) ==
    IF specs = <<>> THEN <<>>
    ELSE IF DedupKey(Head(specs)) \in seen THEN DedupFrom(Tail(specs), seen)
    ELSE <<Head(specs)>> \o DedupFrom(Tail(specs), seen \cup {DedupKey(Head(specs))})

_deduplicate(specs) == DedupFrom(specs, {})

\* periods = parse_periods(text) or [parse_single_range(text)] when that resolves
ResolvePeriods(text, today) ==
    LET Periods(periods, single) ==
            IF periods # <<>> THEN periods
            ELSE IF single.start # None /\ single.end # None
            THEN <<<<single.start, single.end>>>>
            ELSE <<>>
    IN  Periods(parse_periods(text), parse_single_range(text, today))

\* QueryParser.parse with no LLM parser configured (OPENAI_API_KEY empty)
QueryParserParse(user_query, today) ==
    LET Specs(normalized) ==
            _build_specs(QueryParser_parse_market(normalized),
                         _parse_stat(normalized),
                         ResolvePeriods(normalized, today),
                         parse_time_groups(normalized))
    IN  _deduplicate(Specs(normalize_text(user_query)))

\* ------------------------------------------------------------------------
\* parsers/smart_parser.py
\* ------------------------------------------------------------------------
\* \b(rtm|real[-\s]*time)\b, then \b(gdam|green\s*day[-\s]*ahead)\b
_parse_market(text) ==
    IF Has(text, "rtm") \/ (\E i \in 1..Len(text) : Is(text, i, "real") /\ Is(text, i + 1, "time"))
    THEN "RTM"
    ELSE IF HasGdam(text) THEN "GDAM"
    ELSE "DAM"

_deduplicate_specs(specs) == DedupFrom(specs, {})

\* the result of _simple_parse: a list of specs (<<>> for None) or an exception
_simple_parse(text, today) ==
    LET Single(market, d) ==
            [exc |-> "",
             specs |-> <<QuerySpec(market, d, d, "hour", FullDay, NoneL, "twap")>>]
        Simple(lo) ==
            IF /\ Len(lo) = 2 /\ lo[1].k \in MarketWords
               /\ lo[2].k \in {"today", "yesterday"}
            THEN Single(MarketName(lo[1].k),
                        IF Has(lo, "today") THEN today ELSE Yesterday(today))
            ELSE IF /\ Len(lo) = 4 /\ lo[1].k \in MarketWords
                    /\ IsDay(lo[2])
                    /\ IsMon(lo[3]) /\ lo[3].w = 0
                    /\ IsNum(lo[4]) /\ lo[4].w = 4
            THEN IF ValidDate(lo[4].v, lo[3].v, lo[2].v)
                 THEN Single(MarketName(lo[1].k), date(lo[4].v, lo[3].v, lo[2].v))
                 ELSE [exc |-> "ValueError", specs |-> <<>>]
            ELSE [exc |-> "", specs |-> <<>>]
    IN  Simple(lower(text))

_rule_based_parse(text, today) ==
    LET Specs(periods, time_groups) ==
            IF periods = <<>> THEN <<>>
            ELSE _deduplicate_specs(
                     SpecsOfPeriods(_parse_market(text), _parse_stat(text), periods,
                                    IF time_groups = <<>> THEN <<FullDayGroup>>
                                    ELSE time_groups))
    IN  Specs(ResolvePeriods(text, today), parse_time_groups(text))

\* for group in groups: adjusted.append(QuerySpec(...))
RECURSIVE OverlayGroups(_, _)
OverlayGroups(spec, groups) ==
    IF groups = <<>> THEN <<>>
    ELSE <<[spec EXCEPT !.granularity = Head(groups).granularity,
                        !.hours = Head(groups).hours,
                        !.slots = Head(groups).slots]>>
         \o OverlayGroups(spec, Tail(groups))

RECURSIVE Adjusted(_, _)
Adjusted(specs, groups) ==
    IF specs = <<>> THEN <<>>
    ELSE LET Custom(spec, hours_tuple, slots_tuple) ==
                 IF \/ hours_tuple # <<>> /\ hours_tuple # Range(1, 24)
                    \/ slots_tuple # <<>> /\ slots_tuple # Range(1, 96)
                 THEN <<spec>>
                 ELSE OverlayGroups(spec, groups)
             OfSpec(spec) == Custom(spec, ListOrEmpty(spec.hours), ListOrEmpty(spec.slots))
         IN  OfSpec(Head(specs)) \o Adjusted(Tail(specs), groups)

_apply_time_groups(specs, text) ==
    LET Deduplicated(adjusted) ==
            IF adjusted # <<>> THEN _deduplicate_specs(adjusted) ELSE specs
        Overlay(groups) ==
            IF groups = <<>> THEN specs ELSE Deduplicated(Adjusted(specs, groups))
    IN  Overlay(parse_time_groups(text))

\* SmartParser.parse with no OpenAI client configured (OPENAI_API_KEY empty)
SmartParserParse(user_query, today) ==
    LET Tiers(normalized, simple, rule) ==
            IF simple.exc # "" THEN [exc |-> simple.exc, specs |-> <<>>, tier |-> "simple"]
            ELSE IF simple.specs # <<>>
            THEN [exc |-> "", specs |-> _apply_time_groups(simple.specs, normalized),
                  tier |-> "simple"]
            ELSE IF rule # <<>> THEN [exc |-> "", specs |-> rule, tier |-> "rule"]
            ELSE [exc |-> "", specs |-> <<>>, tier |-> "none"]
        Normalized(normalized) ==
            Tiers(normalized, _simple_parse(normalized, today),
                  _rule_based_parse(normalized, today))
    IN  Normalized(normalize_text(user_query))

\* ------------------------------------------------------------------------
\* app/app.py: rows of market data and their metrics
\* ------------------------------------------------------------------------
\* A row is a dict, written as the sequence of its items [key, val] in
\* insertion order.  A value is None, a number or a text, the sequence of
\* its characters.
Missing == [t |-> "none", v |-> 0]
Number(v) == [t |-> "num", v |-> v]
Str(s) == [t |-> "str", v |-> 0, s |-> s]
\* a text that float() and int() reject
Text == Str(<<"n", "/", "a">>)
Item(key, val) == [key |-> key, val |-> val]

\* float arithmetic: a float is the fraction n/d, in lowest terms, of a binary
\* floating-point number; the result of an operation is the exact result
\* rounded to the nearest number of MantissaBits significant bits, ties to
\* the even one, as IEEE 754 arithmetic does with 53 bits
Abs(a) == IF a < 0 THEN -a ELSE a
RECURSIVE Gcd(_, _)
Gcd(a, b) == IF b = 0 THEN a ELSE Gcd(b, a % b)
Frac(n, d) ==
    LET Reduced(g) == [n |-> (IF d < 0 THEN -n ELSE n) \div g, d |-> Abs(d) \div g]
    IN  Reduced(Gcd(Abs(n), Abs(d)))
\* float(i): the integer itself, exact for the integers of the rows
Float(i) == [n |-> i, d |-> 1]
\* the significant bits of a float
MantissaBits == 12
RECURSIVE Pow2(_)
Pow2(k) == IF k = 0 THEN 1 ELSE 2 * Pow2(k - 1)
\* a/d > 0 scaled by 2^e into [2^(MantissaBits-1), 2^MantissaBits)
RECURSIVE Scaled(_, _, _)
Scaled(a, d, e) ==
    IF a < Pow2(MantissaBits - 1) * d THEN Scaled(2 * a, d, e + 1)
    ELSE IF a >= Pow2(MantissaBits) * d THEN Scaled(a, 2 * d, e - 1)
    ELSE [a |-> a, d |-> d, e |-> e]
\* round to nearest, ties to even
Round(x) ==
    LET Nearest(m, r, d) ==
            IF 2 * r > d \/ (2 * r = d /\ m % 2 = 1) THEN m + 1 ELSE m
        Unscaled(m, e) ==
            IF e >= 0 THEN Frac(m, Pow2(e)) ELSE Frac(m * Pow2(-e), 1)
        Mantissa(sign, sc) ==
            Unscaled(sign * Nearest(sc.a \div sc.d, sc.a % sc.d, sc.d), sc.e)
    IN  IF x.n = 0 THEN x
        ELSE Mantissa(IF x.n < 0 THEN -1 ELSE 1, Scaled(Abs(x.n), x.d, 0))
FAdd(x, y) == Round(Frac(x.n * y.d + y.n * x.d, x.d * y.d))
FMul(x, y) == Round(Frac(x.n * y.n, x.d * y.d))
FDiv(x, y) == Round(Frac(x.n * y.d, x.d * y.n))
FLess(x, y) == x.n * y.d < y.n * x.d
\* total = 0.0; total += f for each f, in the order of the rows
RECURSIVE FSum(_)
FSum(fs) ==
    IF fs = <<>> THEN Float(0)
    ELSE FAdd(FSum(SubSeq(fs, 1, Len(fs) - 1)), fs[Len(fs)])
\* min(prices_kwh), max(prices_kwh)
FMin(fs) == fs[CHOOSE i \in 1..Len(fs) : \A j \in 1..Len(fs) : ~FLess(fs[j], fs[i])]
FMax(fs) == fs[CHOOSE i \in 1..Len(fs) : \A j \in 1..Len(fs) : ~FLess(fs[i], fs[j])]

PURCHASE_BID_KEYS ==
    <<"purchase_bid_avg", "purchase_bid", "purchase_bid_sum", "purchase_bid_total_mw",
      "purchase_bid_mw_sum", "purchase_bid_mw_total", "purchase_bid_txt",
      "purchase_bid_mw", "buy_bid_avg", "buy_bid_sum", "buy_bid_total_mw",
      "buy_bid_mw_sum">>
SELL_BID_KEYS ==
    <<"sell_bid_avg", "sell_bid", "sell_bid_sum", "sell_bid_total_mw",
      "sell_bid_mw_sum", "sell_bid_mw_total", "sell_bid_txt", "sell_bid_mw",
      "sell_offer_avg", "sell_offer_sum", "sell_offer_total_mw", "sell_offer_mw_sum">>
PriceKeys ==
    <<"price_avg_rs_per_mwh", "price_rs_per_mwh", "price_rs_per_mw", "mcp_rs_per_mwh">>
ScheduledKeys ==
    <<"scheduled_mw_sum", "scheduled_mw", "cleared_volume_mw", "scheduled_mw_txt">>
McvKeys == <<"mcv_sum", "mcv", "mcv_txt">>
SlotKeys == <<"slot_index", "slot_no", "slot">>
BlockKeys == <<"block_index", "block_no", "delivery_block">>
HourBlockKeys == BlockKeys \o <<"hour_block", "hour_txt", "time_block_txt">>

\* target in actual_key_str.lower() and target != actual_key_str.lower(),
\* for the key names above
IsFragment(target, actual) ==
    \/ target = "purchase_bid"
       /\ actual \in {"purchase_bid_avg", "purchase_bid_sum", "purchase_bid_total_mw",
                      "purchase_bid_mw_sum", "purchase_bid_mw_total",
                      "purchase_bid_txt", "purchase_bid_mw"}
    \/ target = "purchase_bid_mw"
       /\ actual \in {"purchase_bid_mw_sum", "purchase_bid_mw_total"}
    \/ target = "sell_bid"
       /\ actual \in {"sell_bid_avg", "sell_bid_sum", "sell_bid_total_mw",
                      "sell_bid_mw_sum", "sell_bid_mw_total", "sell_bid_txt",
                      "sell_bid_mw"}
    \/ target = "sell_bid_mw" /\ actual \in {"sell_bid_mw_sum", "sell_bid_mw_total"}
    \/ target = "price_rs_per_mw" /\ actual = "price_rs_per_mwh"
    \/ target = "scheduled_mw" /\ actual \in {"scheduled_mw_sum", "scheduled_mw_txt"}
    \/ target = "mcv" /\ actual \in {"mcv_sum", "mcv_txt"}

\* key in row
Contains(row, key) == \E i \in 1..Len(row) : row[i].key = key
\* row.get(key)
Get(row, key) ==
    IF Contains(row, key) THEN row[CHOOSE i \in 1..Len(row) : row[i].key = key].val
    ELSE Missing

\* the first key whose value int() accepts; None when there is none
_extract_int(row, keys) ==
    LET Found(k) == IF k = 0 THEN None ELSE Get(row, keys[k]).v
    IN  Found(First({k \in 1..Len(keys) : Get(row, keys[k]).t = "num"}))

\* the first key whose value float() accepts, then the first key that is a
\* fragment of the name of an item whose value float() accepts, then 0.0
_extract_float(row, keys) ==
    LET Matches(k, i) ==
            row[i].val.t = "num" /\ IsFragment(keys[k], row[i].key)
        Loose(k) ==
            IF k = 0 THEN Float(0)
            ELSE Float(row[First({i \in 1..Len(row) : Matches(k, i)})].val.v)
        Exact(k) ==
            IF k # 0 THEN Float(Get(row, keys[k]).v)
            ELSE Loose(First({j \in 1..Len(keys) :
                                 \E i \in 1..Len(row) : Matches(j, i)}))
    IN  Exact(First({k \in 1..Len(keys) : Get(row, keys[k]).t = "num"}))

\* spec.granularity == "quarter" or (spec.slots and len(spec.slots) > 0)
UsesSlots(spec) == spec.granularity = "quarter" \/ Truthy(spec.slots)
\* set(spec.slots or range(1, 97)), set(spec.hours or range(1, 25))
Allowed(l, all) == IF Truthy(l) THEN {l[i] : i \in 1..Len(l)} ELSE all
\* the slot field alone, without the fallback to the block
SlotOf_NoFallback(row) == _extract_int(row, SlotKeys)
\* the slot of a row: its slot field, else the first slot of its block
SlotOf(row) ==
    LET FromBlock(block) ==
            IF block = None THEN None ELSE (Max(1, block) - 1) * 4 + 1
        FromSlot(slot) ==
            IF slot # None THEN slot ELSE FromBlock(_extract_int(row, BlockKeys))
    IN  FromSlot(_extract_int(row, SlotKeys))

filter_rows_by_time(rows, spec) ==
    LET InSlots(row) == SlotOf(row) \in Allowed(spec.slots, 1..96)
        InHours(row) == _extract_int(row, HourBlockKeys) \in Allowed(spec.hours, 1..24)
    IN  IF UsesSlots(spec) THEN SelectSeq(rows, InSlots) ELSE SelectSeq(rows, InHours)

\* the payload of compute_market_metrics with every figure 0.0
ZeroMetrics ==
    [exc |-> "", twap |-> Float(0), min_price |-> Float(0), max_price |-> Float(0),
     total_volume_gwh |-> Float(0), purchase_bid_total_mw |-> Float(0),
     sell_bid_total_mw |-> Float(0), scheduled_total_mw |-> Float(0),
     mcv_total_mw |-> Float(0), duration_hours |-> Float(0)]

\* float(row.get('duration_min') or default_duration)
DurationOf(row, default_duration) ==
    LET Coerced(value) ==
            IF value.t = "none" \/ (value.t = "num" /\ value.v = 0)
            THEN Float(default_duration) ELSE Float(value.v)
    IN  Coerced(Get(row, "duration_min"))

\* the mean of the values instead of their duration-weighted sum
WeightedTotal_Averaged(column, duration_min) ==
    IF column = <<>> THEN Float(0) ELSE FDiv(FSum(column), Float(Len(column)))
\* total += value * duration_hours, over the rows
WeightedTotal(column, duration_min) ==
    FSum([i \in 1..Len(column) |-> FMul(column[i], FDiv(duration_min[i], Float(60)))])
\* the weighted price sum left undivided
Twap_Undivided(price_weight, minute_total) == price_weight
\* (price_weight / minute_total) if minute_total else 0.0
Twap(price_weight, minute_total) ==
    IF minute_total.n # 0 THEN FDiv(price_weight, minute_total) ELSE Float(0)

\* the result of compute_market_metrics: the payload, or the exception that
\* float() raises on a duration_min it rejects
compute_market_metrics(rows, spec) ==
    LET Column(keys) == [i \in 1..Len(rows) |-> _extract_float(rows[i], keys)]
        Figures(duration_min, price_mwh, scheduled_mw, purchase_bid, sell_bid, mcv) ==
            LET Metrics(prices_kwh) ==
                    [exc |-> "",
                     twap |-> Twap(FSum([i \in 1..Len(rows) |->
                                           FMul(prices_kwh[i], duration_min[i])]),
                                   FSum(duration_min)),
                     min_price |-> IF rows # <<>> THEN FMin(prices_kwh) ELSE Float(0),
                     max_price |-> IF rows # <<>> THEN FMax(prices_kwh) ELSE Float(0),
                     total_volume_gwh |->
                         FDiv(WeightedTotal(scheduled_mw, duration_min), Float(1000)),
                     purchase_bid_total_mw |-> WeightedTotal(purchase_bid, duration_min),
                     sell_bid_total_mw |-> WeightedTotal(sell_bid, duration_min),
                     scheduled_total_mw |-> WeightedTotal(scheduled_mw, duration_min),
                     mcv_total_mw |-> WeightedTotal(mcv, duration_min),
                     duration_hours |-> FDiv(FSum(duration_min), Float(60))]
            IN  Metrics([i \in 1..Len(rows) |-> FDiv(price_mwh[i], Float(1000))])
    IN  IF \E i \in 1..Len(rows) : Get(rows[i], "duration_min").t = "str"
        THEN [ZeroMetrics EXCEPT !.exc = "ValueError"]
        ELSE Figures([i \in 1..Len(rows) |->
                         DurationOf(rows[i], IF spec.granularity = "quarter" THEN 15 ELSE 60)],
                     Column(PriceKeys), Column(ScheduledKeys),
                     Column(PURCHASE_BID_KEYS), Column(SELL_BID_KEYS), Column(McvKeys))

\* ------------------------------------------------------------------------
\* core/database.py: the rows DatabaseManager hands to the application
\* ------------------------------------------------------------------------
\* str.strip() and the leading and trailing whitespace float() ignores
strip(s) ==
    LET Inner(S) ==
            IF S = {} THEN <<>>
            ELSE SubSeq(s, First(S), CHOOSE i \in S : \A j \in S : j <= i)
    IN  Inner({i \in 1..Len(s) : s[i] # " "})
\* str.replace(token, ""): the occurrences of token, from the left, removed
RECURSIVE replace(_, _)
replace(s, token) ==
    LET Cut(p) ==
            IF p = 0 THEN s
            ELSE SubSeq(s, 1, p - 1) \o replace(SubSeq(s, p + Len(token), Len(s)), token)
    IN  Cut(First({p \in 1..(Len(s) - Len(token) + 1) :
                      SubSeq(s, p, p + Len(token) - 1) = token}))
\* for token in (",", "₹", "rs", "RS", "Rs", "MW", "mw", "kWh", "MWh");
\* the character "rupee" stands for the rupee sign
DecorationTokens ==
    <<(<<",">>), <<"rupee">>, <<"r", "s">>, <<"R", "S">>, <<"R", "s">>, <<"M", "W">>,
      <<"m", "w">>, <<"k", "W", "h">>, <<"M", "W", "h">>>>
RECURSIVE StripTokens(_, _)
StripTokens(cleaned, k) ==
    IF k > Len(DecorationTokens) THEN cleaned
    ELSE StripTokens(replace(cleaned, DecorationTokens[k]), k + 1)
Digits == <<"0", "1", "2", "3", "4", "5", "6", "7", "8", "9">>
DigitValue(c) == (CHOOSE d \in 1..10 : Digits[d] = c) - 1
RECURSIVE IntOfDigits(_)
IntOfDigits(s) ==
    IF s = <<>> THEN 0
    ELSE 10 * IntOfDigits(SubSeq(s, 1, Len(s) - 1)) + DigitValue(s[Len(s)])
\* float(cleaned) for a text without sign, decimal point or exponent: the
\* number when the text is a run of digits, ValueError (None) otherwise
float(cleaned) ==
    LET Stripped(t) ==
            IF t # <<>> /\ \A i \in 1..Len(t) : \E d \in 1..10 : Digits[d] = t[i]
            THEN IntOfDigits(t)
            ELSE None
    IN  Stripped(strip(cleaned))
\* _as_float: None, an empty text and a text float() rejects give 0.0
_as_float(value) ==
    LET Parsed(number) == IF number = None THEN Number(0) ELSE Number(number)
        Cleaned(cleaned) ==
            IF cleaned = <<>> THEN Number(0)
            ELSE Parsed(float(StripTokens(cleaned, 1)))
    IN  IF value.t = "none" THEN Number(0)
        ELSE IF value.t = "num" THEN value
        ELSE Cleaned(strip(value.s))
\* row.get(key, default)
GetOr(row, key, default) == IF Contains(row, key) THEN Get(row, key) ELSE default
\* row[key] = value
Put(row, key, value) ==
    IF Contains(row, key)
    THEN [i \in 1..Len(row) |-> IF row[i].key = key THEN Item(key, value) ELSE row[i]]
    ELSE Append(row, Item(key, value))
\* any(token in key_lower for token in BID_FIELD_KEYWORDS), for the key names above
IsBidField(key) ==
    \E k \in 1..Len(PURCHASE_BID_KEYS) : key \in {PURCHASE_BID_KEYS[k], SELL_BID_KEYS[k]}
_coerce_bid_fields(row) ==
    [i \in 1..Len(row) |->
        IF IsBidField(row[i].key) THEN Item(row[i].key, _as_float(row[i].val))
        ELSE row[i]]
\* for alias in (...): if alias in row: row[alias] = _as_float(row[alias])
CoerceAlias(row, alias) ==
    IF Contains(row, alias) THEN Put(row, alias, _as_float(Get(row, alias))) ELSE row
\* int(row.get('duration_min', 60) or 60)
IntDuration(row, default) ==
    LET Coerced(value) ==
            IF value.t = "none" \/ (value.t = "num" /\ value.v = 0)
            THEN Number(default) ELSE value
    IN  Coerced(GetOr(row, "duration_min", Number(default)))

\* the numeric fields fetch_hourly writes into a row
HourlyRow(row) ==
    _coerce_bid_fields(
      CoerceAlias(CoerceAlias(CoerceAlias(
        Put(Put(Put(Put(Put(Put(row,
          "price_avg_rs_per_mwh",
          _as_float(GetOr(row, "price_avg_rs_per_mwh",
                          GetOr(row, "mcp_rs_per_mwh", Number(0))))),
          "scheduled_mw_sum",
          _as_float(GetOr(row, "scheduled_mw_sum",
                          GetOr(row, "scheduled_mw_txt",
                                GetOr(row, "scheduled_mw", Number(0)))))),
          "duration_min", IntDuration(row, 60)),
          "purchase_bid_avg", _as_float(Get(row, "purchase_bid_avg"))),
          "sell_bid_avg", _as_float(Get(row, "sell_bid_avg"))),
          "mcv_sum", _as_float(GetOr(row, "mcv_sum", GetOr(row, "mcv_txt", Number(0))))),
        "purchase_bid_txt"), "sell_bid_txt"), "mcv_txt"))

\* the numeric fields fetch_quarter writes into a row
QuarterRow(row) ==
    _coerce_bid_fields(
        Put(Put(Put(Put(Put(Put(row,
          "price_rs_per_mwh",
          _as_float(GetOr(row, "price_rs_per_mwh",
                          GetOr(row, "mcp_rs_per_mwh", Number(0))))),
          "scheduled_mw",
          _as_float(GetOr(row, "scheduled_mw", GetOr(row, "scheduled_mw_txt", Number(0))))),
          "duration_min", IntDuration(row, 15)),
          "purchase_bid",
          _as_float(GetOr(row, "purchase_bid", GetOr(row, "purchase_bid_txt", Number(0))))),
          "sell_bid",
          _as_float(GetOr(row, "sell_bid", GetOr(row, "sell_bid_txt", Number(0))))),
          "mcv", _as_float(GetOr(row, "mcv", GetOr(row, "mcv_txt", Number(0))))))

\* the result of fetch_hourly / fetch_quarter on the rows the query returns:
\* the rows, or the exception of a failed connection or of int() on a
\* duration_min it rejects
fetch_rows(stored, quarter, fails) ==
    IF fails THEN [exc |-> "OperationalError", rows |-> <<>>]
    ELSE IF \E i \in 1..Len(stored) : Get(stored[i], "duration_min").t = "str"
    THEN [exc |-> "ValueError", rows |-> <<>>]
    ELSE [exc |-> "",
          rows |-> [i \in 1..Len(stored) |->
                      IF quarter THEN QuarterRow(stored[i]) ELSE HourlyRow(stored[i])]]

\* ------------------------------------------------------------------------
\* app/app.py: fetch_market_data
\* ------------------------------------------------------------------------
\* fetch_market_data(None)
NoSpec == QuerySpec("", None, None, "", NoneL, NoneL, "")

\* a payload that reports a full day although no row was found
empty_market_payload_FullDay ==
    [twap |-> Float(0), min_price |-> Float(0), max_price |-> Float(0),
     total_volume_gwh |-> Float(0), purchase_bid_total_mw |-> Float(0),
     sell_bid_total_mw |-> Float(0), scheduled_total_mw |-> Float(0),
     mcv_total_mw |-> Float(0), duration_hours |-> Float(24), rows |-> <<>>]
empty_market_payload ==
    [twap |-> Float(0), min_price |-> Float(0), max_price |-> Float(0),
     total_volume_gwh |-> Float(0), purchase_bid_total_mw |-> Float(0),
     sell_bid_total_mw |-> Float(0), scheduled_total_mw |-> Float(0),
     mcv_total_mw |-> Float(0), duration_hours |-> Float(0), rows |-> <<>>]

fetch_market_data(spec, stored, fails) ==
    LET WithRows(metrics, filtered_rows) ==
            IF metrics.exc # "" THEN empty_market_payload
            ELSE [f \in DOMAIN empty_market_payload |->
                    IF f = "rows" THEN filtered_rows ELSE metrics[f]]
        Filtered(filtered_rows) ==
            IF filtered_rows = <<>> THEN empty_market_payload
            ELSE WithRows(compute_market_metrics(filtered_rows, spec), filtered_rows)
        Fetched(fetched) ==
            IF fetched.exc # "" \/ fetched.rows = <<>> THEN empty_market_payload
            ELSE Filtered(filter_rows_by_time(fetched.rows, spec))
    IN  IF spec = NoSpec THEN empty_market_payload
        ELSE Fetched(fetch_rows(stored, UsesSlots(spec), fails))

\* f"{x:.1f}", f"{x:.2f}", f"{x:+.1f}": the sign and the digits of x rounded
\* half-to-even to `digits` decimals, as a count of units of the last digit
FixedPoint(x, digits) ==
    LET scale == IF digits = 1 THEN 10 ELSE 100
        Rounded(q, r) ==
            IF 2 * r > x.d \/ (2 * r = x.d /\ q % 2 = 1) THEN q + 1 ELSE q
    IN  [neg |-> x.n < 0,
         units |-> Rounded((Abs(x.n) * scale) \div x.d, (Abs(x.n) * scale) % x.d)]

\* the bullets are kept as the figures their text is formatted from
build_default_insights(all_market_data, selection_details) ==
    LET dam_price == all_market_data["DAM"].twap
        gdam_price == all_market_data["GDAM"].twap
        rtm_price == all_market_data["RTM"].twap
        gdam_premium ==
            IF dam_price.n # 0
            THEN FMul(FDiv(FAdd(gdam_price, FMul(Float(-1), dam_price)), dam_price),
                      Float(100))
            ELSE Float(0)
    IN  <<[kind |-> "DAM", price |-> FixedPoint(dam_price, 2),
           volume |-> FixedPoint(all_market_data["DAM"].total_volume_gwh, 1),
           time_label |-> selection_details.time_label],
          [kind |-> "GDAM", premium |-> FixedPoint(gdam_premium, 1),
           price |-> FixedPoint(gdam_price, 2),
           volume |-> FixedPoint(all_market_data["GDAM"].total_volume_gwh, 1)],
          [kind |-> "RTM", price |-> FixedPoint(rtm_price, 2),
           volume |-> FixedPoint(all_market_data["RTM"].total_volume_gwh, 1)],
          [kind |-> "advice"]>>

\* a line of the reply: an optional bullet mark ('•', '-', '*') and the
\* text after it, both possibly empty
Line(mark, text) == [mark |-> mark, text |-> text]
\* the final `if not bullets and text.strip()` never applies: a text with a
\* non-blank line has appended a bullet for that line
parse_bullets(text) ==
    LET Stripped(line) == [kind |-> "text", text |-> line.text]
        NonBlank == SelectSeq(text, LAMBDA line : line.mark # "" \/ line.text # "")
    IN  [i \in 1..Len(NonBlank) |-> Stripped(NonBlank[i])]

\* openai_client.chat.completions.create(...) and the reading of its result:
\* response.choices[0].message.content.strip(), parse_bullets,
\* response.usage.total_tokens
Completion(client) ==
    IF client.kind = "raises" THEN [exc |-> "APIError", bullets |-> <<>>]
    ELSE IF client.kind = "no_choices" THEN [exc |-> "IndexError", bullets |-> <<>>]
    ELSE IF client.kind = "no_content" \/ ~client.usage
    THEN [exc |-> "AttributeError", bullets |-> <<>>]
    ELSE [exc |-> "", bullets |-> parse_bullets(client.content)]

\* `return bullets` in place of `return bullets or fallback`
OrFallback_Bullets(bullets, fallback) == bullets
\* bullets or fallback
OrFallback(bullets, fallback) == IF bullets # <<>> THEN bullets ELSE fallback

\* except Exception: return fallback
ExceptException(result, fallback) ==
    IF result.exc # "" THEN [exc |-> "", bullets |-> fallback] ELSE result

\* user_query, spec, primary_data and all_market_prev_year are read for the
\* prompt only
generate_ai_insights(all_market_data, selection_details, client) ==
    LET Try(fallback, completion) ==
            IF completion.exc # "" THEN completion
            ELSE [exc |-> "", bullets |-> OrFallback(completion.bullets, fallback)]
        WithFallback(fallback) ==
            IF client.kind = "none" THEN [exc |-> "", bullets |-> fallback]
            ELSE ExceptException(Try(fallback, Completion(client)), fallback)
    IN  WithFallback(build_default_insights(all_market_data, selection_details))

\* ------------------------------------------------------------------------
\* The queries the parsers are applied to
\* ------------------------------------------------------------------------
\* the longest list of years / of "Month YYYY" mentions in one query
MaxMentions == 3
\* the largest number of bare ranges joined by "and" in one query
MaxRanges == 2

Up(t) == [t EXCEPT !.c = 1]
Num(v) == N(v, IF v < 10 THEN 1 ELSE IF v < 100 THEN 2 ELSE IF v < 1000 THEN 3 ELSE 4)
nov == M(11, 0)
november == M(11, 1)
apr == M(4, 0)

MarketParts ==
    {<<>>, <<W("dam")>>, <<W("gdam"), W("rate"), W("for")>>, <<W("rtm"), W("for")>>,
     <<W("dam"), W("rate"), W("for")>>, <<Up(W("dam")), W("rate"), W("for")>>,
     <<W("compare")>>}

\* "november 2022, 2023, ..." with k years
CommaYearsPhrase(k) ==
    [j \in 1..(2 * k) |->
        IF j = 1 THEN november
        ELSE IF j % 2 = 1 THEN W(",")
        ELSE N(2021 + (j \div 2), 4)]
\* "november 2022, november 2023, ..." with k mentions
RepeatedPhrase(k) ==
    [j \in 1..(3 * k - 1) |->
        IF (j - 1) % 3 = 0 THEN november
        ELSE IF (j - 1) % 3 = 1 THEN N(2022 + ((j - 1) \div 3), 4)
        ELSE W(",")]
NumericDate(d, m, y) == <<Num(d), W("/"), Num(m), W("/"), Num(y)>>

DateParts ==
    {<<>>, <<W("today")>>, <<W("yesterday")>>,
     <<W("this"), W("month")>>, <<W("last"), W("month")>>}
    \cup {<<Num(d), m, Num(2025)>> : d \in {14, 31}, m \in {nov, november, apr}}
    \cup {<<m, Num(2024)>> : m \in {nov, november, M(2, 0)}}
    \cup {<<Num(14), Up(nov), Num(2025)>>, <<Num(14), nov>>, <<Num(14), nov, Num(25)>>,
          <<Num(2), M(9, 2), Num(2025)>>}
    \cup {<<Num(24), M(9, 0), Num(2024), W("to"), Num(25), M(10, 0), Num(2024)>>,
          <<Num(25), M(10, 0), Num(2024), W("to"), Num(24), M(9, 0), Num(2024)>>}
    \cup {<<Num(10), W("-"), Num(15), M(8, 0), Num(2025)>>,
          <<Num(15), W("-"), Num(10), M(8, 0), Num(2025)>>}
    \cup {<<Num(24), M(9, 1), W("to"), Num(24), M(10, 1), Num(2025)>>}
    \cup {<<nov, Num(2024), W("to"), M(2, 0), Num(2025)>>,
          <<M(2, 0), Num(2025), W("to"), nov, Num(2024)>>}
    \cup {NumericDate(31, 10, 2025), NumericDate(31, 4, 2025), NumericDate(1, 1, 2009)}
    \cup {NumericDate(31, 10, 2025) \o <<W("to")>> \o NumericDate(15, 11, 2025),
          NumericDate(15, 11, 2025) \o <<W("to")>> \o NumericDate(31, 10, 2025)}
    \cup {<<W("in"), Num(2024)>>, <<nov, W("-"), Num(24)>>}
    \cup {CommaYearsPhrase(k) : k \in 2..MaxMentions}
    \cup {<<november, Num(2022), W(","), Num(2022)>>,
          <<november, Num(2022), W(","), Num(1999)>>}
    \cup {RepeatedPhrase(k) : k \in 2..MaxMentions}

\* "6-8 and 12-14 and ..." with k ranges
RangesPhrase(k) ==
    [j \in 1..(4 * k - 1) |->
        IF (j - 1) % 4 = 0 THEN Num(6 * (((j - 1) \div 4) + 1))
        ELSE IF (j - 1) % 4 = 1 THEN W("-")
        ELSE IF (j - 1) % 4 = 2 THEN Num(6 * (((j - 1) \div 4) + 1) + 2)
        ELSE W("and")]

TimePairs ==
    {<<8, 9>>, <<9, 8>>, <<20, 50>>, <<20, 30>>, <<0, 0>>, <<97, 99>>}
TimeParts ==
    {<<>>}
    \cup {<<Num(p[1]), W("-"), Num(p[2]), W(u)>> : p \in TimePairs, u \in {"hrs", "slots"}}
    \cup {<<Num(p[1]), W("-"), Num(p[2])>> : p \in TimePairs}
    \cup {<<Num(8), W("to"), Num(9), W("hours")>>, <<Num(0), W("to"), Num(24), W("hrs")>>,
          <<Num(20), W("to"), Num(50), W("blocks")>>,
          <<W("between"), Num(8), W("and"), Num(10), W("hrs")>>}
    \cup {<<N(8, 2), W(":"), N(5, 2), W("to"), N(10, 2), W(":"), N(0, 2)>>,
          <<Num(3), W("pm"), W("to"), Num(5), W("pm")>>}
    \cup {RangesPhrase(k) : k \in 2..MaxRanges}

\* market, date, time  or  market, time, "on", date
Join(mp, dp, tp, timeFirst) ==
    IF timeFirst
    THEN mp \o tp \o (IF tp # <<>> /\ dp # <<>> THEN <<W("on")>> ELSE <<>>) \o dp
    ELSE mp \o dp \o tp
Queries ==
    {Join(mp, dp, tp, o) : mp \in MarketParts, dp \in DateParts,
                           tp \in TimeParts, o \in BOOLEAN}

\* the dates date.today() may return
Todays == {date(2025, 3, 1)}

\* ------------------------------------------------------------------------
\* The spec lists _deduplicate is applied to
\* ------------------------------------------------------------------------
\* the longest list of specs handed to _deduplicate
MaxSpecs == 3

\* dataclass QuerySpec with its two defaulted fields given
WithMeta(spec, area, auto_added) ==
    [spec EXCEPT !.area = area, !.auto_added = auto_added]
SampleSpecs ==
    {WithMeta(QuerySpec(k[1], date(2025, 10, 31), date(2025, 10, 31),
                        k[2].granularity, k[2].hours, k[2].slots, "twap"),
              meta[1], meta[2]) :
        k \in {<<"DAM", FullDayGroup>>, <<"GDAM", FullDayGroup>>,
               <<"DAM", [granularity |-> "quarter", hours |-> NoneL,
                         slots |-> Range(20, 22)]>>},
        meta \in {<<"ALL", FALSE>>, <<"N1", FALSE>>, <<"ALL", TRUE>>}}
SpecLists == UNION {[1..n -> SampleSpecs] : n \in 0..MaxSpecs}

\* ------------------------------------------------------------------------
\* The rows and specs the data path is applied to
\* ------------------------------------------------------------------------
\* the largest number of rows a query returns
MaxRows == 2

HourRow(block, price, bid, minutes) ==
    <<Item("block_index", block), Item("price_rs_per_mwh", price),
      Item("purchase_bid", bid), Item("sell_bid", bid), Item("duration_min", minutes)>>
SampleRows ==
    {HourRow(Number(3), Number(5000), Number(100), Number(60)),
     HourRow(Number(4), Number(8610), Number(100), Number(60)),
     HourRow(Number(3), Number(5000), Number(100), Text),
     HourRow(Number(4), Text, Text, Number(60)),
     HourRow(Number(0), Number(2000), Number(30), Number(0)),
     HourRow(Missing, Number(5000), Missing, Missing),
     <<Item("slot_index", Number(9)), Item("block_index", Number(5)),
       Item("price_rs_per_mwh", Number(8610)), Item("purchase_bid", Number(40)),
       Item("sell_bid", Number(20)), Item("duration_min", Number(15))>>,
     <<Item("block_index", Number(3)), Item("mcp_rs_per_mwh", Number(2000)),
       Item("purchase_bid_avg", Missing), Item("purchase_bid_mw_sum", Number(70)),
       Item("scheduled_mw_sum", Number(300)), Item("mcv_txt", Text)>>}
RowLists == UNION {[1..n -> SampleRows] : n \in 0..MaxRows}

TimeSpec(granularity, hours, slots) ==
    QuerySpec("DAM", date(2025, 10, 31), date(2025, 10, 31), granularity, hours, slots,
              "twap")
TimeSpecs ==
    {TimeSpec("hour", <<3>>, NoneL), TimeSpec("hour", FullDay, NoneL),
     TimeSpec("quarter", NoneL, Range(9, 12)), TimeSpec("quarter", NoneL, <<1>>),
     TimeSpec("quarter", FullDay, Range(20, 50))}

\* ------------------------------------------------------------------------
\* The texts normalize_text and the market extraction are applied to
\* ------------------------------------------------------------------------
\* the largest number of market keywords in one text
MaxMarkets == 2

MarketMentions == UNION {[1..n -> {W(m) : m \in MarketWords}] : n \in 0..MaxMarkets}
RangePhrases ==
    {<<>>,
     <<W("between"), Num(1), nov, W("and"), Num(5), nov>>,
     <<W("between"), Num(1), nov, W("and"), W("between"), Num(2), nov, W("and"),
       Num(3), nov>>,
     <<W("between"), W("between"), Num(1), W("and"), Num(2), W("and"), Num(3)>>,
     <<W("between"), Num(8), W("and"), Num(10), W("hrs"), W("and"), W("between"),
       Num(12), W("and"), Num(14), W("hrs")>>,
     <<Num(1), nov, W("--"), Num(5), nov>>,
     <<Num(1), nov, W("till"), Num(5), nov>>,
     <<nov, W("-"), Num(24), W("upto"), M(12, 0), W("-"), Num(24)>>}
Phrases == {mp \o rp : mp \in MarketMentions, rp \in RangePhrases}

\* ------------------------------------------------------------------------
\* The market data and the external model generate_ai_insights is applied to
\* ------------------------------------------------------------------------
\* the largest number of lines in a reply of the external model
MaxLines == 2

Payload(twap, total_volume_gwh) ==
    [empty_market_payload EXCEPT !.twap = twap, !.total_volume_gwh = total_volume_gwh]
Payloads ==
    {empty_market_payload, Payload(Float(5), Frac(3, 4)), Payload(Frac(9, 2), Frac(1, 8))}
MarketData == [{"DAM", "GDAM", "RTM"} -> Payloads]
SelectionDetails ==
    {[time_label |-> "00:00-24:00 hrs (All India)", duration_hours |-> Float(24)],
     [time_label |-> "02:00-03:00 hrs (All India)", duration_hours |-> Float(1)]}

Client(kind, content, usage) == [kind |-> kind, content |-> content, usage |-> usage]
\* openai_client = None when no API key is configured
NoClient == Client("none", <<>>, TRUE)
Lines ==
    {Line("-", "Prices rose"), Line("", "Buy in DAM"), Line("", ""), Line("*", "")}
Clients ==
    {NoClient, Client("raises", <<>>, TRUE), Client("no_choices", <<>>, TRUE),
     Client("no_content", <<>>, TRUE)}
    \cup {Client("reply", content, usage) :
             content \in UNION {[1..n -> Lines] : n \in 0..MaxLines},
             usage \in BOOLEAN}

\* ------------------------------------------------------------------------
\* The column values _as_float is applied to
\* ------------------------------------------------------------------------
\* a number as a text column writes it, with its value
Amounts ==
    {[text |-> <<"1", "2", "0">>, value |-> 120],
     [text |-> <<"1", ",", "2", "3", "4">>, value |-> 1234]}
CurrencyMarks == {<<>>, <<"rupee">>, <<"rupee", " ">>, <<"R", "s">>, <<"R", "s", " ">>}
UnitSuffixes ==
    {<<>>, <<"M", "W">>, <<" ", "M", "W">>, <<" ", "M", "W", "h">>, <<" ", "k", "W", "h">>}
Decorated(mark, amount, unit) == Str(mark \o amount.text \o unit)
ColumnValues ==
    {Missing, Number(0), Number(120), Text}
    \cup {Str(s) : s \in {<<>>, <<" ">>, <<"h">>, <<"M", "W">>, <<"rupee">>}}
    \cup {Decorated(mark, amount, unit) :
            mark \in CurrencyMarks, amount \in Amounts, unit \in UnitSuffixes}

\* ------------------------------------------------------------------------
\* State machine: one operation is applied to one input
\* ------------------------------------------------------------------------
VARIABLES
    query,      \* the text handed to the parser
    today,      \* the system date
    spec_list,  \* the specs handed to _deduplicate
    db_rows,    \* the rows the storage holds for the requested period
    db_spec,    \* the spec the rows are requested for
    db_fails,   \* TRUE when the storage cannot be reached
    db_value,   \* the value of a column handed to _as_float
    all_market_data,    \* the payload of each market for the requested period
    selection_details,  \* the label and length of the requested time window
    openai_client,      \* the external model: how it answers a request
    call,       \* the operation that has been applied ("idle" before)
    out         \* what it returned

vars == <<query, today, spec_list, db_rows, db_spec, db_fails, db_value,
          all_market_data, selection_details, openai_client, call, out>>

\* nothing is handed to generate_ai_insights
NoInsightInput ==
    /\ all_market_data = [m \in {"DAM", "GDAM", "RTM"} |-> empty_market_payload]
    /\ selection_details = [time_label |-> "", duration_hours |-> Float(0)]
    /\ openai_client = NoClient

Init ==
    /\ query \in Queries
    /\ today \in Todays
    /\ spec_list = <<>>
    /\ db_rows = <<>> /\ db_spec = NoSpec /\ db_fails = FALSE
    /\ db_value = Missing
    /\ NoInsightInput
    /\ call = "idle"
    /\ out = <<>>

Return(op, value) ==
    /\ call = "idle"
    /\ call' = op
    /\ out' = value
    /\ UNCHANGED <<query, today, spec_list, db_rows, db_spec, db_fails, db_value,
                   all_market_data, selection_details, openai_client>>

\* _default_spec reads date.today() a second time; midnight may pass between
\* the two reads
Bulletproof ==
    \E t2 \in {today, Tomorrow(today)} :
        Return("BulletproofParser.parse", BulletproofParse(query, today, t2))
DatePeriods == Return("DateParser.parse_periods", parse_periods(query))
DateSingleRange == Return("DateParser.parse_single_range", parse_single_range(query, today))
CoreSingleRange ==
    Return("core.DateParser.parse_single_range", core_parse_single_range(query, today))
TimeGroups == Return("TimeParser.parse_time_groups", parse_time_groups(query))
QueryParse == Return("QueryParser.parse", QueryParserParse(query, today))
SmartParse == Return("SmartParser.parse", SmartParserParse(query, today))

Next ==
    \/ Bulletproof
    \/ DatePeriods
    \/ DateSingleRange
    \/ CoreSingleRange
    \/ TimeGroups
    \/ QueryParse
    \/ SmartParse

Spec == Init /\ [][Next]_vars

\* the operations that take structured input instead of a text
AppInit ==
    /\ query = <<>>
    /\ today \in Todays
    /\ \/ /\ spec_list \in SpecLists
          /\ db_rows = <<>> /\ db_spec = NoSpec /\ db_fails = FALSE
          /\ db_value = Missing
          /\ NoInsightInput
       \/ /\ spec_list = <<>>
          /\ db_rows \in RowLists
          /\ db_spec \in TimeSpecs \cup {NoSpec}
          /\ db_fails \in BOOLEAN
          /\ db_value = Missing
          /\ NoInsightInput
       \/ /\ spec_list = <<>>
          /\ db_rows = <<>> /\ db_spec = NoSpec /\ db_fails = FALSE
          /\ db_value \in ColumnValues
          /\ NoInsightInput
       \/ /\ spec_list = <<>>
          /\ db_rows = <<>> /\ db_spec = NoSpec /\ db_fails = FALSE
          /\ db_value = Missing
          /\ all_market_data \in MarketData
          /\ selection_details \in SelectionDetails
          /\ openai_client \in Clients
    /\ call = "idle"
    /\ out = <<>>

QueryDeduplicate == Return("QueryParser._deduplicate", _deduplicate(spec_list))
SmartDeduplicate == Return("SmartParser._deduplicate_specs", _deduplicate_specs(spec_list))
FilterRows ==
    /\ db_spec # NoSpec
    /\ Return("filter_rows_by_time", filter_rows_by_time(db_rows, db_spec))
ComputeMetrics ==
    /\ db_spec # NoSpec
    /\ Return("compute_market_metrics", compute_market_metrics(db_rows, db_spec))
FetchMarketData ==
    Return("fetch_market_data", fetch_market_data(db_spec, db_rows, db_fails))

AsFloat == Return("_as_float", _as_float(db_value))

GenerateInsights ==
    Return("generate_ai_insights",
           generate_ai_insights(all_market_data, selection_details, openai_client))

AppNext ==
    \/ QueryDeduplicate
    \/ SmartDeduplicate
    \/ FilterRows
    \/ ComputeMetrics
    \/ FetchMarketData
    \/ AsFloat
    \/ GenerateInsights

AppSpec == AppInit /\ [][AppNext]_vars

\* the operations that take a text and do not read the date
TextInit ==
    /\ query \in Phrases
    /\ today \in Todays
    /\ spec_list = <<>>
    /\ db_rows = <<>> /\ db_spec = NoSpec /\ db_fails = FALSE
    /\ db_value = Missing
    /\ NoInsightInput
    /\ call = "idle"
    /\ out = <<>>

Normalize == Return("normalize_text", normalize_text(query))
SmartMarket == Return("SmartParser._parse_market", _parse_market(query))
QueryMarket == Return("QueryParser._parse_market", QueryParser_parse_market(query))
BulletproofMarket == Return("BulletproofParser._extract_market", _extract_market(query))

TextNext ==
    \/ Normalize
    \/ SmartMarket
    \/ QueryMarket
    \/ BulletproofMarket

TextSpec == TextInit /\ [][TextNext]_vars

\* ------------------------------------------------------------------------
\* Properties
\* ------------------------------------------------------------------------
SpecsOf(o) == {o[i] : i \in 1..Len(o)}
\* the query is `prefix` followed by `rest`, for one of the market prefixes
AfterMarket(q, rest) == \E mp \in MarketParts : q = mp \o rest

\* C1: BulletproofParser.parse returns a non-empty list for every input, and
\* when the direct, component and lenient strategies all yield nothing the
\* result is exactly one default spec: DAM, today..today, hour, hours 1..24,
\* no slots, twap.
C1_NonEmptyWithDefault ==
    call = "BulletproofParser.parse" =>
        /\ Len(out.specs) >= 1
        /\ ( /\ _parse_direct(lower(query), today) = <<>>
             /\ _parse_components(lower(query), today) = <<>>
             /\ _parse_lenient(lower(query)) = <<>> )
           => out.specs = <<[market |-> "DAM", start_date |-> today,
                             end_date |-> today, granularity |-> "hour",
                             hours |-> <<1, 2, 3, 4, 5, 6, 7, 8, 9, 10, 11, 12,
                                         13, 14, 15, 16, 17, 18, 19, 20, 21,
                                         22, 23, 24>>,
                             slots |-> NoneL, stat |-> "twap",
                             area |-> "ALL", auto_added |-> FALSE]>>
\* a query with no market, date or time signal has been answered by the default
C1_Witness ==
    /\ call = "BulletproofParser.parse"
    /\ query = <<W("compare")>>
    /\ out.strategy = "default"
    /\ Len(out.specs) = 1

\* C2: QueryParser.parse returns at least one spec for every input text.
C2_PlanNonEmpty ==
    call = "QueryParser.parse" => Len(out) >= 1

\* C3: in every spec produced by a parser exactly one of hours / slots is
\* populated and it is the one the granularity names.
MatchesGranularity(spec) ==
    \/ spec.granularity = "hour" /\ Truthy(spec.hours) /\ spec.slots = NoneL
    \/ spec.granularity = "quarter" /\ Truthy(spec.slots) /\ spec.hours = NoneL
C3_OneOfHoursSlots ==
    /\ call = "BulletproofParser.parse" =>
           \A spec \in SpecsOf(out.specs) : MatchesGranularity(spec)
    /\ call = "QueryParser.parse" =>
           \A spec \in SpecsOf(out) : MatchesGranularity(spec)
    /\ call = "SmartParser.parse" =>
           \A spec \in SpecsOf(out.specs) : MatchesGranularity(spec)

\* C4: hours, when present, are strictly ascending integers within 1..24 and
\* slots, when present, strictly ascending integers within 1..96.
Ascending(l, lo, hi) ==
    /\ \A i \in 1..Len(l) : l[i] >= lo /\ l[i] <= hi
    /\ \A i \in 1..(Len(l) - 1) : l[i] < l[i + 1]
IndexListsOK(spec) ==
    /\ spec.hours # NoneL => Ascending(spec.hours, 1, 24)
    /\ spec.slots # NoneL => Ascending(spec.slots, 1, 96)
C4_IndexRanges ==
    /\ call = "BulletproofParser.parse" =>
           \A spec \in SpecsOf(out.specs) : IndexListsOK(spec)
    /\ call = "QueryParser.parse" =>
           \A spec \in SpecsOf(out) : IndexListsOK(spec)
    /\ call = "SmartParser.parse" =>
           \A spec \in SpecsOf(out.specs) : IndexListsOK(spec)

\* C5: every period the date parser returns has start_date <= end_date, and
\* a range written with its ends reversed is resolved to the swapped range.
ReversedRanges ==
    {[text |-> <<Num(25), M(10, 0), Num(2024), W("to"), Num(24), M(9, 0), Num(2024)>>,
      start |-> date(2024, 9, 24), end |-> date(2024, 10, 25)],
     [text |-> <<Num(15), W("-"), Num(10), M(8, 0), Num(2025)>>,
      start |-> date(2025, 8, 10), end |-> date(2025, 8, 15)],
     [text |-> <<M(2, 0), Num(2025), W("to"), nov, Num(2024)>>,
      start |-> date(2024, 11, 1), end |-> date(2025, 2, 28)],
     [text |-> NumericDate(15, 11, 2025) \o <<W("to")>> \o NumericDate(31, 10, 2025),
      start |-> date(2025, 10, 31), end |-> date(2025, 11, 15)]}
C5_StartBeforeEnd ==
    /\ call = "DateParser.parse_periods" =>
           \A i \in 1..Len(out) : out[i][1] <= out[i][2]
    /\ call = "DateParser.parse_single_range" =>
           /\ out.start # None => out.start <= out.end
           /\ \A r \in ReversedRanges :
                  query = r.text => out.start = r.start /\ out.end = r.end
    /\ call = "QueryParser.parse" =>
           \A spec \in SpecsOf(out) : spec.start_date <= spec.end_date

\* C6: parse_single_range on a text whose only date expression is a day, a
\* month name and a four-digit year returns that single day.
IsDayMonthYear(rest) ==
    /\ Len(rest) = 3
    /\ IsDay(rest[1]) /\ IsMon(rest[2]) /\ IsNum(rest[3]) /\ rest[3].w = 4
    /\ ValidDate(rest[3].v, rest[2].v, rest[1].v)
C6_SingleDay ==
    call = "DateParser.parse_single_range" =>
        \A rest \in DateParts :
            (IsDayMonthYear(rest) /\ AfterMarket(query, rest)) =>
                /\ out.start = date(rest[3].v, rest[2].v, rest[1].v)
                /\ out.end = date(rest[3].v, rest[2].v, rest[1].v)

\* C7: parse_single_range on "24 Sep 2024 to 25 Oct 2024" returns
\* 2024-09-24 .. 2024-10-25.
C7_DayMonthYearRange ==
    ( /\ call = "DateParser.parse_single_range"
      /\ query = <<Num(24), M(9, 0), Num(2024), W("to"), Num(25), M(10, 0), Num(2024)>> )
    => out.start = date(2024, 9, 24) /\ out.end = date(2024, 10, 25)

\* C8: "<market> rate for <day> <month abbreviation> <year>" with a valid
\* calendar date is resolved by the direct strategy to exactly one spec:
\* that market, that single day, hour granularity, hours 1..24, twap.
IsRateForDay(q) ==
    /\ Len(q) = 6
    /\ q[1].k \in MarketWords /\ q[2].k = "rate" /\ q[3].k = "for"
    /\ IsDay(q[4]) /\ IsMon(q[5]) /\ q[5].w \in {0, 2}
    /\ IsNum(q[6]) /\ q[6].w = 4
    /\ ValidDate(q[6].v, q[5].v, q[4].v)
C8_RateForDay ==
    (call = "BulletproofParser.parse" /\ IsRateForDay(query)) =>
        /\ out.strategy = "direct"
        /\ out.specs = <<[market |-> MarketName(query[1].k),
                          start_date |-> date(query[6].v, query[5].v, query[4].v),
                          end_date |-> date(query[6].v, query[5].v, query[4].v),
                          granularity |-> "hour", hours |-> Range(1, 24),
                          slots |-> NoneL, stat |-> "twap",
                          area |-> "ALL", auto_added |-> FALSE]>>
\* "DAM rate for 14 Nov 2025" has been parsed to the single day 2025-11-14
C8_Witness ==
    /\ call = "BulletproofParser.parse"
    /\ query = <<Up(W("dam")), W("rate"), W("for"), Num(14), Up(nov), Num(2025)>>
    /\ out.specs[1].start_date = date(2025, 11, 14)
    /\ out.specs[1].market = "DAM"

\* C9: parse_periods on a text with two or more "Month YYYY" mentions
\* returns one full-month period per distinct (year, month), in first-seen
\* order.
ExpectedMonths(k) == [i \in 1..k |-> FullMonth(2021 + i, 11)]
C9_RepeatedMonthYear ==
    call = "DateParser.parse_periods" =>
        \A k \in 2..MaxMentions :
            AfterMarket(query, RepeatedPhrase(k)) => out = ExpectedMonths(k)

\* C10: for a text whose only time expression is "N-M slots" with
\* 1 <= N <= M <= 96, parse_time_groups returns exactly one group, of
\* granularity quarter, with slots N..M.
C10_ExplicitSlots ==
    call = "TimeParser.parse_time_groups" =>
        \A p \in TimePairs :
            ( /\ 1 <= p[1] /\ p[1] <= p[2] /\ p[2] <= 96
              /\ query = <<Num(p[1]), W("-"), Num(p[2]), W("slots")>> )
            => out = <<[granularity |-> "quarter", hours |-> NoneL,
                        slots |-> Range(p[1], p[2])]>>

\* C11: _deduplicate and _deduplicate_specs return the subsequence of their
\* input that keeps, for each key (market, start_date, end_date, granularity,
\* hours, slots, stat), the first spec with that key, in the original order;
\* specs that differ only in area or auto_added collapse to one.
FieldKey(s) ==
    <<s.market, s.start_date, s.end_date, s.granularity, s.hours, s.slots, s.stat>>
FirstWithKey(l) ==
    LET IsFirst(i) == \A j \in 1..(i - 1) : FieldKey(l[j]) # FieldKey(l[i])
        Pick(kept) == [j \in 1..Len(kept) |-> l[kept[j]]]
    IN  Pick(SelectSeq([i \in 1..Len(l) |-> i], IsFirst))
C11_DedupStable ==
    call \in {"QueryParser._deduplicate", "SmartParser._deduplicate_specs"}
        => out = FirstWithKey(spec_list)
C11_Witness ==
    /\ call = "QueryParser._deduplicate"
    /\ Len(spec_list) = 3 /\ Len(out) = 1
    /\ spec_list[1].area # spec_list[2].area
    /\ spec_list[1].auto_added # spec_list[3].auto_added
    /\ out[1] = spec_list[1]

\* the number a row holds under a key, None when it holds none
NumberAt(row, key) ==
    IF \E i \in 1..Len(row) : row[i].key = key /\ row[i].val.t = "num"
    THEN row[CHOOSE i \in 1..Len(row) : row[i].key = key].val.v
    ELSE None
\* a row that states its price, both bids and a positive duration as numbers
\* under the keys price_rs_per_mwh, purchase_bid, sell_bid and duration_min,
\* and under no other key
IsPlainRow(row) ==
    /\ \A i \in 1..Len(row) :
          row[i].key \in {"block_index", "slot_index", "price_rs_per_mwh",
                          "purchase_bid", "sell_bid", "duration_min"}
    /\ \A key \in {"price_rs_per_mwh", "purchase_bid", "sell_bid"} :
          NumberAt(row, key) # None
    /\ NumberAt(row, "duration_min") > 0
\* sum over the rows of (the number under key) x duration_min
RECURSIVE MinuteWeighted(_, _)
MinuteWeighted(rows, key) ==
    IF rows = <<>> THEN 0
    ELSE NumberAt(Head(rows), key) * NumberAt(Head(rows), "duration_min")
         + MinuteWeighted(Tail(rows), key)
RECURSIVE Minutes(_)
Minutes(rows) ==
    IF rows = <<>> THEN 0 ELSE NumberAt(Head(rows), "duration_min") + Minutes(Tail(rows))
PlainRows == \A i \in 1..Len(db_rows) : IsPlainRow(db_rows[i])

\* C12: compute_market_metrics sums the duration-weighted bids and does not
\* average them: purchase_bid_total_mw is the sum over the rows of
\* purchase_bid x duration_min / 60, and sell_bid_total_mw likewise.
C12_BidsSummed ==
    (call = "compute_market_metrics" /\ PlainRows)
        => /\ out.exc = ""
           /\ out.purchase_bid_total_mw.n * 60
                  = MinuteWeighted(db_rows, "purchase_bid") * out.purchase_bid_total_mw.d
           /\ out.sell_bid_total_mw.n * 60
                  = MinuteWeighted(db_rows, "sell_bid") * out.sell_bid_total_mw.d
\* two rows of 100 MW that last 60 minutes each total 200
C12_Witness ==
    /\ call = "compute_market_metrics"
    /\ Len(db_rows) = 2
    /\ \A i \in 1..2 : /\ IsPlainRow(db_rows[i])
                        /\ NumberAt(db_rows[i], "purchase_bid") = 100
                        /\ NumberAt(db_rows[i], "duration_min") = 60
    /\ out.purchase_bid_total_mw = [n |-> 200, d |-> 1]

\* price / 1000 x duration_min of each row, as floats
PriceMinutes(rows) ==
    [i \in 1..Len(rows) |->
        FMul(FDiv(Float(NumberAt(rows[i], "price_rs_per_mwh")), Float(1000)),
             Float(NumberAt(rows[i], "duration_min")))]

\* C13: compute_market_metrics returns twap = (sum over the rows of
\* price / 1000 x duration_min) / (sum over the rows of duration_min), in
\* float arithmetic, and 0 when the total duration is 0; one row of 5000 per
\* MWh and 60 minutes gives 5.
C13_Twap ==
    (call = "compute_market_metrics" /\ PlainRows)
        => /\ out.exc = ""
           /\ db_rows = <<>> => out.twap = [n |-> 0, d |-> 1]
           /\ db_rows # <<>> =>
                  out.twap = FDiv(FSum(PriceMinutes(db_rows)), Float(Minutes(db_rows)))
C13_Witness ==
    /\ call = "compute_market_metrics"
    /\ Len(db_rows) = 1 /\ IsPlainRow(db_rows[1])
    /\ NumberAt(db_rows[1], "price_rs_per_mwh") = 5000
    /\ NumberAt(db_rows[1], "duration_min") = 60
    /\ out.twap = [n |-> 5, d |-> 1]

\* the index the selection of a spec is matched against: the block index of
\* a row for hour granularity; for quarter granularity its slot field or,
\* when the row has a block index only, the first slot of that block
DerivedIndex(row, granularity) ==
    IF granularity = "hour" THEN NumberAt(row, "block_index")
    ELSE IF NumberAt(row, "slot_index") # None THEN NumberAt(row, "slot_index")
    ELSE IF NumberAt(row, "block_index") # None
    THEN (NumberAt(row, "block_index") - 1) * 4 + 1
    ELSE None
Requested(spec) == IF spec.granularity = "hour" THEN spec.hours ELSE spec.slots
\* the rows name their index under block_index and slot_index, and blocks
\* are numbered from 1
IndexedRows ==
    \A i \in 1..Len(db_rows) :
        /\ \A j \in 1..Len(db_rows[i]) :
              db_rows[i][j].key \notin
                  ({SlotKeys[k] : k \in 1..Len(SlotKeys)}
                   \cup {HourBlockKeys[k] : k \in 1..Len(HourBlockKeys)})
                  \ {"block_index", "slot_index"}
        /\ NumberAt(db_rows[i], "block_index") # None
              => NumberAt(db_rows[i], "block_index") >= 1
Retained(rows, spec) ==
    LET Wanted(row) ==
            \E k \in 1..Len(Requested(spec)) :
                Requested(spec)[k] = DerivedIndex(row, spec.granularity)
                /\ DerivedIndex(row, spec.granularity) # None
    IN  SelectSeq(rows, Wanted)

AllZero(payload) ==
    \A f \in {"twap", "min_price", "max_price", "total_volume_gwh",
               "purchase_bid_total_mw", "sell_bid_total_mw", "scheduled_total_mw",
               "mcv_total_mw", "duration_hours"} : payload[f] = [n |-> 0, d |-> 1]

\* C15: with zero rows (the storage returned none, the storage raised, or the
\* filter removed every row) fetch_market_data returns the all-zero payload,
\* and compute_market_metrics returns all zeros on an empty list; neither
\* raises.
C15_ZeroRows ==
    /\ (call = "fetch_market_data" /\ (db_rows = <<>> \/ db_fails \/ out.rows = <<>>))
          => AllZero(out) /\ out.rows = <<>>
    /\ (call = "compute_market_metrics" /\ db_rows = <<>>)
          => AllZero(out) /\ out.exc = ""
\* the storage returned rows and the filter removed all of them
C15_Witness ==
    /\ call = "fetch_market_data"
    /\ ~db_fails /\ db_spec # NoSpec /\ Len(db_rows) = 2
    /\ \A i \in 1..2 : Get(db_rows[i], "duration_min").t = "num"
    /\ out.rows = <<>> /\ AllZero(out)

\* C20: compute_market_metrics never raises on rows with missing or
\* non-numeric fields; such a price, volume, bid, mcv or duration counts as
\* absent and the other rows are still aggregated.
C20_NeverRaises ==
    call = "compute_market_metrics" => out.exc = ""

\* C16: normalize_text is idempotent: normalizing its own result changes
\* nothing, also for texts with several "between"/"and" words, dash variants
\* and month abbreviations with two-digit years.
C16_Idempotent ==
    call = "normalize_text" => normalize_text(out) = out

\* the markets a text mentions, ordered by the first mention of each
FirstMention(text, m) == First({i \in 1..Len(text) : text[i].k = m})
MarketsMentioned(text) ==
    LET Mentioned == {m \in MarketWords : FirstMention(text, m) # 0}
        Upper(m) == IF m = "rtm" THEN "RTM" ELSE IF m = "gdam" THEN "GDAM" ELSE "DAM"
        Ordered == SelectSeq([i \in 1..Len(text) |-> i],
                             LAMBDA i : \E m \in Mentioned : FirstMention(text, m) = i)
    IN  IF Mentioned = {} THEN <<"DAM">>
        ELSE [j \in 1..Len(Ordered) |-> Upper(text[Ordered[j]].k)]

\* C17: market extraction returns every market the text mentions (RTM, GDAM,
\* DAM) ordered by first mention, and DAM alone when no market keyword
\* occurs; a text that mentions DAM before RTM yields DAM first.
C17_MarketsInOrder ==
    call \in {"SmartParser._parse_market", "QueryParser._parse_market",
              "BulletproofParser._extract_market"}
        => <<out>> = MarketsMentioned(query)

\* the external model failed or gave nothing to show: no client is
\* configured, the request raised, or the reply has no non-blank line
ModelFailed(client) ==
    \/ client.kind \in {"none", "raises"}
    \/ /\ client.kind = "reply"
       /\ \A i \in 1..Len(client.content) :
             client.content[i].mark = "" /\ client.content[i].text = ""

\* C18: generate_ai_insights never propagates a failure of the external
\* model: without a client, when the request raises, or when the reply
\* yields no bullets, it returns the fallback bullets of
\* build_default_insights computed from the metrics.
C18_InsightFallback ==
    call = "generate_ai_insights"
        => /\ out.exc = ""
           /\ ModelFailed(openai_client)
                 => out.bullets = build_default_insights(all_market_data,
                                                         selection_details)
\* the external model replied with blank lines only and the fallback states
\* the DAM price 4.50 and volume 0.1 (0.125 rounded half to even)
C18_Witness ==
    /\ call = "generate_ai_insights"
    /\ openai_client.kind = "reply" /\ openai_client.usage
    /\ Len(openai_client.content) = 2 /\ ModelFailed(openai_client)
    /\ Len(out.bullets) = 4
    /\ out.bullets[1].price = [neg |-> FALSE, units |-> 450]
    /\ out.bullets[1].volume = [neg |-> FALSE, units |-> 1]
    /\ out.bullets[2].premium = [neg |-> FALSE, units |-> 111]

\* the text states a day, a month and a year that form no calendar date,
\* as "31 apr 2025" or "31/4/2025"
HasInvalidDate(text) ==
    \E i \in 1..Len(text) :
        \/ /\ IsNum(At(text, i)) /\ IsMon(At(text, i + 1)) /\ IsNum(At(text, i + 2))
           /\ At(text, i + 2).w = 4
           /\ ~ValidDate(text[i + 2].v, text[i + 1].v, text[i].v)
        \/ /\ IsNum(At(text, i)) /\ Is(text, i + 1, "/") /\ IsNum(At(text, i + 2))
           /\ Is(text, i + 3, "/") /\ IsNum(At(text, i + 4)) /\ At(text, i + 4).w = 4
           /\ ~ValidDate(text[i + 4].v, text[i + 2].v, text[i].v)
Raised(result) == "exc" \in DOMAIN result /\ result.exc # ""

\* C19: for a query whose day, month and year form an invalid calendar date
\* (e.g. "DAM 31 Apr 2025") none of BulletproofParser.parse, SmartParser.parse
\* and DateParser.parse_single_range raises.
C19_InvalidDateNeverRaises ==
    (/\ call \in {"BulletproofParser.parse", "SmartParser.parse",
                  "DateParser.parse_single_range"}
     /\ HasInvalidDate(query))
        => ~Raised(out)

\* the nine resolvers in the order the specification gives them
SpecOrder ==
    <<"day_month_to_day_month_year", "day_month_year_range", "day_range_same_month",
      "numeric_range", "single_numeric_date", "single_day_month",
      "month_to_month_range", "month_year", "year_only">>
IsPrefix(s, t) == Len(s) <= Len(t) /\ s = SubSeq(t, 1, Len(s))
SingleRangeCalls ==
    {"DateParser.parse_single_range", "core.DateParser.parse_single_range"}

\* C21: parse_single_range answers a relative keyword first (yesterday,
\* today, this month, last month); otherwise it tries the nine resolvers in
\* the order of the specification, skipping one that raises or yields
\* nothing, returns the result of the first that yields both dates, and
\* returns (None, None) when all nine have been tried without one.
C21_ResolverOrder ==
    call \in SingleRangeCalls =>
        LET Relative(text) ==
                IF HasSpaced(text, "yesterday") THEN "yesterday"
                ELSE IF HasSpaced(text, "today") THEN "today"
                ELSE IF HasSpacedPair(text, "this", "month") THEN "this month"
                ELSE IF HasSpacedPair(text, "last", "month") THEN "last month"
                ELSE ""
            Checked(keyword) ==
                IF keyword # ""
                THEN out.by = keyword /\ out.tried = <<>>
                     /\ out.start # None /\ out.end # None
                ELSE /\ IsPrefix(out.tried, SpecOrder)
                     /\ IF out.start # None /\ out.end # None
                        THEN out.by = out.tried[Len(out.tried)]
                        ELSE out.tried = SpecOrder /\ out.start = None /\ out.end = None
        IN  Checked(Relative(lower(query)))

\* the last n tokens of the query are all that follows its market words
OnlyTimeExpression(q, n) ==
    Len(q) >= n /\ SubSeq(q, 1, Len(q) - n) \in MarketParts
LastTokens(q, n) == SubSeq(q, Len(q) - n + 1, Len(q))
HourGroupOf(first, last) ==
    [granularity |-> "hour", hours |-> Range(first, last), slots |-> NoneL]

\* C22: for a text whose only time expression is "H1 to H2 hrs" or
\* "H1-H2 hours" with 0 <= H1 < H2 <= 24, parse_time_groups returns one hour
\* group whose hours are exactly H1+1..H2.
C22_WordedHourRange ==
    (call = "TimeParser.parse_time_groups" /\ OnlyTimeExpression(query, 4)) =>
        LET Worded(t) ==
                ( /\ IsNum(t[1]) /\ t[2].k \in {"to", "-"} /\ IsNum(t[3])
                  /\ t[4].k \in HourWords
                  /\ 0 <= t[1].v /\ t[1].v < t[3].v /\ t[3].v <= 24 )
                => out = <<HourGroupOf(t[1].v + 1, t[3].v)>>
        IN  Worded(LastTokens(query, 4))

\* C23: in a clock-time range "HH:MM to HH:MM" whose opening time H:MM has
\* 0 < MM < 60, the hour group opens at block H+1 ("08:05 to 10:00" opens
\* at block 9).
C23_ClockOpeningBlock ==
    (call = "TimeParser.parse_time_groups" /\ OnlyTimeExpression(query, 7)) =>
        LET IsHour(r) == r.granularity = "hour"
            Opens(groups, block) ==
                Len(groups) = 1 /\ groups[1].hours[1] = block
            Clock(t) ==
                ( /\ IsNum(t[1]) /\ t[2].k = ":" /\ IsNum(t[3]) /\ t[3].w = 2
                  /\ t[4].k = "to"
                  /\ IsNum(t[5]) /\ t[6].k = ":" /\ IsNum(t[7]) /\ t[7].w = 2
                  /\ t[1].v < t[5].v /\ t[5].v <= 23
                  /\ 0 < t[3].v /\ t[3].v < 60 )
                => Opens(SelectSeq(out, IsHour), t[1].v + 1)
        IN  Clock(LastTokens(query, 7))

\* "N-M and N-M and ..." with every 1 <= N <= M <= 24
IsBareRanges(t) ==
    /\ Len(t) % 4 = 3
    /\ \A j \in 1..Len(t) :
          IF j % 4 = 0 THEN t[j].k = "and"
          ELSE IF j % 4 = 2 THEN t[j].k = "-"
          ELSE IsNum(t[j])
    /\ \A j \in 1..Len(t) :
          j % 4 = 1 => (1 <= t[j].v /\ t[j].v <= t[j + 2].v /\ t[j + 2].v <= 24)
HoursOfBareRanges(t) ==
    {h \in 1..24 : \E j \in 1..Len(t) :
        j % 4 = 1 /\ t[j].v <= h /\ h <= t[j + 2].v}

\* C24: for a text holding only bare ranges "N-M" with 1 <= N <= M <= 24 and
\* no unit word, parse_time_groups returns exactly one group, of granularity
\* hour, whose hours are the union of the ranges, and no quarter group.
C24_BareRangesAreHours ==
    call = "TimeParser.parse_time_groups" =>
        \A n \in {4 * k - 1 : k \in 1..MaxRanges} :
            (OnlyTimeExpression(query, n) /\ IsBareRanges(LastTokens(query, n)))
            => out = <<[granularity |-> "hour",
                        hours |-> SortedSeq(HoursOfBareRanges(LastTokens(query, n))),
                        slots |-> NoneL]>>

\* C29: every group parse_time_groups returns has a non-empty index list: an
\* hour group at least one hour, a quarter group at least one slot.
C29_GroupsNonEmpty ==
    call = "TimeParser.parse_time_groups" =>
        \A i \in 1..Len(out) :
            /\ out[i].granularity = "hour" => (out[i].hours # NoneL /\ Len(out[i].hours) >= 1)
            /\ out[i].granularity = "quarter" => (out[i].slots # NoneL /\ Len(out[i].slots) >= 1)

\* C25: parse_periods returns either the empty list or at least two
\* pairwise-distinct periods; "November 2022, 2022" never yields the same
\* period twice.
C25_PeriodsDistinct ==
    call = "DateParser.parse_periods" =>
        \/ out = <<>>
        \/ /\ Len(out) >= 2
           /\ \A i, j \in 1..Len(out) : i # j => out[i] # out[j]

\* C26: the current date is read once in a parse call, so the dates of a
\* result that derive from "today" are the same day even when midnight passes
\* during the call: the default spec of BulletproofParser.parse has
\* start_date = end_date, and parse_single_range answers "today" with one day.
C26_OneReadOfToday ==
    /\ (call = "BulletproofParser.parse" /\ out.strategy = "default")
           => out.specs[1].start_date = out.specs[1].end_date
    /\ (call = "DateParser.parse_single_range" /\ out.by = "today")
           => out.start = out.end

\* C28: BulletproofParser.parse returns a list of exactly one spec for every
\* input, whichever strategy answers; a query naming several periods yields
\* no more than one spec.
C28_ExactlyOneSpec ==
    call = "BulletproofParser.parse" => Len(out.specs) = 1
\* a query naming two months has been answered with one spec
C28_Witness ==
    /\ call = "BulletproofParser.parse"
    /\ query = <<W("dam")>> \o RepeatedPhrase(2)
    /\ Len(out.specs) = 1

\* C27: _as_float strips the decoration of a text before parsing: a number
\* written with a thousands separator, a currency symbol (rupee sign, Rs) or
\* a unit suffix (MW, MWh, kWh) gives that number; None, an empty text and a
\* text that holds no number give 0.0.
C27_DecorationStripped ==
    call = "_as_float" =>
        /\ \A mark \in CurrencyMarks, amount \in Amounts, unit \in UnitSuffixes :
              db_value = Decorated(mark, amount, unit) => out = Number(amount.value)
        /\ db_value \in {Missing, Text, Str(<<>>), Str(<<" ">>)} => out = Number(0)

\* the rows all last a positive number of minutes
PositiveDurations ==
    \A i \in 1..Len(db_rows) :
        /\ NumberAt(db_rows[i], "duration_min") # None
        /\ NumberAt(db_rows[i], "duration_min") > 0

\* C30: for a non-empty list of rows that all have a positive duration the
\* result of compute_market_metrics satisfies min_price <= twap <= max_price.
C30_TwapWithinExtremes ==
    (/\ call = "compute_market_metrics"
     /\ db_rows # <<>>
     /\ out.exc = ""
     /\ PositiveDurations)
        => /\ ~FLess(out.twap, out.min_price)
           /\ ~FLess(out.max_price, out.twap)

====
